---- MODULE Spec2Model ----
(***************************************************************************)
(* The HTML pipeline of the web engine: Lexer (src/src/lexer.rs), the      *)
(* Tokenizer state machine (src/src/tokenizer.rs), the tree constructor    *)
(* HTMLDocumentParser (src/src/html_document_parser.rs) and the DOM node   *)
(* graph (src/src/node.rs).                                                *)
(*                                                                         *)
(* A character is a one-character string; NUL and U+FFFD are the two       *)
(* symbols "NUL" and "U+FFFD" (and U+0060 is "U+0060").  A Rust String is  *)
(* a sequence of characters.                                               *)
(* Option::None is the symbol None.  An Rc<RefCell<Node>> is an index into *)
(* the heap `nodes`; a Weak reference is the same index, and upgrade()     *)
(* succeeds exactly when the node's strong count is not zero (`alive`).    *)
(* A panic (failed unwrap, index out of bounds, arithmetic overflow in a   *)
(* build with overflow checks, panic!, todo!) sets `aborted`; every        *)
(* operation after it in the same handler is skipped.                      *)
(***************************************************************************)
EXTENDS Integers, Sequences, FiniteSets, TLC

VARIABLES
    tokens,                             \* Lexer.tokens: the bytes of the input file
    position,                           \* Lexer.position
    overflow_checks,                    \* build profile: TRUE = arithmetic overflow panics, FALSE = it wraps
    tokenization_state,                 \* Tokenizer.tokenization_state
    html_tokens,                        \* Tokenizer.html_tokens
    reconsume_flag,                     \* Tokenizer.reconsume_current_input_character
    return_state,                       \* Tokenizer.return_state
    temporary_buffer,                   \* Tokenizer.temporary_buffer
    attribute_buffer,                   \* Tokenizer.attribute_buffer
    character_reference_code,           \* Tokenizer.character_reference_code (u32 as [hi, lo] 16-bit halves)
    insertion_mode,                     \* HTMLDocumentParser.insertion_mode
    nodes,                              \* the heap of DOM nodes (every Rc<RefCell<Node>> ever created)
    stack_of_open_elements,             \* HTMLDocumentParser.stack_of_open_elements
    head_element,                       \* HTMLDocumentParser.head_element
    parse_errors,                       \* the diagnostics printed by Tokenizer::parse_error, in order
    received,                           \* the tokens passed to HTMLDocumentParser::parse_html_token, in order
    next_input_character,               \* the local variable of Tokenizer::start
    pc,                                 \* where Tokenizer::start stands
    source,                             \* Scanner.source: the text given to Interpreter::run
    execution_mode,                     \* ExecutionMode of the run: "Script" (run_file) or "Shell" (run_prompt)
    js_tokens,                          \* Scanner.tokens, as handed to Parser::new
    statements,                         \* the Vec<Statement> Parser::parse returns
    next_statement,                     \* how many statements Interpreter::interpret has executed
    values,                             \* JSObject.values of the global binding object
    variable_bindings,                  \* DeclarativeEnvironmentRecord.variable_bindings
    had_error,                          \* Interpreter.had_error
    completions,                        \* the completion records returned so far, in order
    operations,                         \* the environment-record operations applied so far, in order
    reported,                           \* the diagnostics the JS pipeline printed, in order
    exit_code,                          \* <<>> while the process runs, <<code>> once it has ended
    js_pc,                              \* where the JS pipeline stands
    appropriate,                        \* <<>>, or <<outcome>> of a call of appropriate_end_tag_token
    scanner                             \* <<>>, or <<the Scanner>> while scan_tokens runs step by step

html_vars == <<tokens, position, overflow_checks, tokenization_state, html_tokens, reconsume_flag,
          return_state, temporary_buffer, attribute_buffer, character_reference_code,
          insertion_mode, nodes, stack_of_open_elements, head_element, parse_errors,
          received, next_input_character, pc>>

js_vars == <<source, execution_mode, js_tokens, statements, next_statement, values,
             variable_bindings, had_error, completions, operations, reported, exit_code, js_pc>>

\* the outcome of a function applied on its own
call_vars == <<appropriate, scanner>>

vars == <<html_vars, js_vars, call_vars>>

\* main took the HTML path: no Interpreter was constructed
NoInterpreter ==
    /\ source = <<>>
    /\ execution_mode = "Script"
    /\ js_tokens = <<>>
    /\ statements = <<>>
    /\ next_statement = 0
    /\ values = <<>>
    /\ variable_bindings = <<>>
    /\ had_error = FALSE
    /\ completions = <<>>
    /\ operations = <<>>
    /\ reported = <<>>
    /\ exit_code = <<>>
    /\ js_pc = "idle"
    /\ appropriate = <<>>
    /\ scanner = <<>>

-----------------------------------------------------------------------------
(* Characters *)

None == "None"
Panic == "Panic"
NUL == "NUL"
REPLACEMENT_FEED_CHARACTER == "U+FFFD"
GRAVE == "U+0060"

\* The printable ASCII characters, U+0020 to U+007E, in code point order.
Ascii == <<" ","!","\"","#","$","%","&","'","(",")","*","+",",","-",".","/",
           "0","1","2","3","4","5","6","7","8","9",":",";","<","=",">","?",
           "@","A","B","C","D","E","F","G","H","I","J","K","L","M","N","O",
           "P","Q","R","S","T","U","V","W","X","Y","Z","[","\\","]","^","_",
           GRAVE,"a","b","c","d","e","f","g","h","i","j","k","l","m","n","o",
           "p","q","r","s","t","u","v","w","x","y","z","{","|","}","~">>

AsciiUpper == {Ascii[i] : i \in 34..59}
AsciiLower == {Ascii[i] : i \in 66..91}
AsciiDigit == {Ascii[i] : i \in 17..26}
AsciiAlpha == AsciiUpper \cup AsciiLower
AsciiAlphanumeric == AsciiAlpha \cup AsciiDigit
UpperHex == {"A","B","C","D","E","F"}
LowerHex == {"a","b","c","d","e","f"}
Whitespace == {"\t", "\n", "\r", "\f", " "}

\* `c as u32` for the characters of the model.
CharCode(c) ==
    CASE c = NUL -> 0
      [] c = "\t" -> 9
      [] c = "\n" -> 10
      [] c = "\f" -> 12
      [] c = "\r" -> 13
      [] c = REPLACEMENT_FEED_CHARACTER -> 65533
      [] OTHER -> 31 + (CHOOSE i \in 1..Len(Ascii) : Ascii[i] = c)

to_ascii_lowercase(c) == IF c \in AsciiUpper THEN Ascii[CharCode(c) - 31 + 32] ELSE c

-----------------------------------------------------------------------------
(* u32 arithmetic: a value is [hi, lo], two 16-bit halves *)

U32(n) == [hi |-> n \div 65536, lo |-> n % 65536]

\* [value, overflow] of code * k and of code + d in 32 bits
U32Mul(code, k) ==
    LET lo2 == code.lo * k
        hi2 == code.hi * k + lo2 \div 65536
    IN  [value |-> [hi |-> hi2 % 65536, lo |-> lo2 % 65536], overflow |-> hi2 >= 65536]

U32Add(code, d) ==
    LET lo2 == code.lo + d
        hi2 == code.hi + lo2 \div 65536
    IN  [value |-> [hi |-> hi2 % 65536, lo |-> lo2 % 65536], overflow |-> hi2 >= 65536]

U32Gt(code, n) == code.hi > n \div 65536 \/ (code.hi = n \div 65536 /\ code.lo > n % 65536)
U32Ge(code, n) == U32Gt(code, n) \/ code = U32(n)
U32Le(code, n) == ~U32Gt(code, n)

\* `value as u8`
AsU8(code) == code.lo % 256

-----------------------------------------------------------------------------
(* Lexer (src/src/lexer.rs).  `position` is a usize; a negative number    *)
(* stands for the value 2^64 + position that a subtraction wraps to in a   *)
(* build without overflow checks.                                          *)

tokens_length == Len(tokens)

\* self.tokens[i]: Panic when i is out of bounds
TokenAt(i) == IF i >= 0 /\ i < tokens_length THEN tokens[i + 1] ELSE Panic

peek(pos) == IF pos # tokens_length THEN TokenAt(pos) ELSE None

rewindAndPeek(pos, amount) == IF pos # tokens_length THEN TokenAt(pos - amount) ELSE None

previous(pos) == IF pos # tokens_length THEN TokenAt(pos - 1) ELSE None

advance(pos) == pos + 1

\* self.position -= amount: below zero it panics in a build with overflow checks and wraps
\* in a build without
rewind_overflows(pos, amount) == overflow_checks /\ pos >= 0 /\ amount > pos

rewind(pos, amount) == pos - amount

-----------------------------------------------------------------------------
(* The machine: the fields of Tokenizer, Lexer and HTMLDocumentParser that *)
(* a handler reads and writes, as one record.                              *)

Machine ==
    [position |-> position,
     tokenization_state |-> tokenization_state,
     html_tokens |-> html_tokens,
     reconsume_flag |-> reconsume_flag,
     return_state |-> return_state,
     temporary_buffer |-> temporary_buffer,
     attribute_buffer |-> attribute_buffer,
     character_reference_code |-> character_reference_code,
     insertion_mode |-> insertion_mode,
     nodes |-> nodes,
     stack_of_open_elements |-> stack_of_open_elements,
     head_element |-> head_element,
     parse_errors |-> parse_errors,
     received |-> received,
     aborted |-> FALSE]

Abort(m) == [m EXCEPT !.aborted = TRUE]

\* run `step` unless the program has already panicked
Then(m, step) == IF m.aborted THEN m ELSE step

Str0 == <<>>

-----------------------------------------------------------------------------
(* DOM nodes (src/src/node.rs) *)

ELEMENT_NODE == "ELEMENT_NODE"
TEXT_NODE == "TEXT_NODE"
COMMENT_NODE == "COMMENT_NODE"
DOCUMENT_NODE == "DOCUMENT_NODE"
DOCUMENT_TYPE_NODE == "DOCUMENT_TYPE_NODE"

\* Option<WeakNode>::None, and the result of a failed Weak::upgrade
NoNode == 0

\* Node::new
NewNode(data, node_type) ==
    [nodeType |-> node_type, data |-> data, ownerDocument |-> NoNode, parentNode |-> NoNode,
     childNodes |-> <<>>, alive |-> TRUE]

\* create_ref_node: the new node is the last one of the heap
create_ref_node(m, data, node_type) == [m EXCEPT !.nodes = Append(@, NewNode(data, node_type))]

LastNode(m) == Len(m.nodes)

\* Weak::upgrade
upgrade(m, weak) == IF weak # NoNode /\ m.nodes[weak].alive THEN weak ELSE NoNode

\* Node::append_child
append_child(m, parent, child_node) == [m EXCEPT !.nodes[parent].childNodes = Append(@, child_node)]

\* Comment::new, Text::new, Element::new, DocumentType::new, Document::new
CommentData(data) == [kind |-> "Comment", data |-> data]
TextData(data) == [kind |-> "Text", data |-> data]
ElementData(local_name) == [kind |-> "Element", local_name |-> local_name]
DocumentTypeData(name, public_id, system_id) ==
    [kind |-> "DocumentType", name |-> name, public_id |-> public_id, system_id |-> system_id]
DocumentData == [kind |-> "Document"]

-----------------------------------------------------------------------------
(* HTMLDocumentParser (src/src/html_document_parser.rs) *)

\* HTMLDocumentParser::new creates two document nodes: the local `document`, whose weak
\* reference is pushed on the stack and which is dropped when new returns (node 1), and
\* the one stored in the field `document` (node 2).
dropped_document == 1
document == 2

InitialNodes ==
    <<[NewNode(DocumentData, DOCUMENT_NODE) EXCEPT !.alive = FALSE],
      NewNode(DocumentData, DOCUMENT_NODE)>>

InitialStack == <<dropped_document>>

\* ownerDocument and parentNode of the node just created
SetLast(m, owner_document, parent_node) ==
    [m EXCEPT !.nodes[LastNode(m)].ownerDocument = owner_document,
              !.nodes[LastNode(m)].parentNode = parent_node]

\* parent.append_child(node just created)
AppendLast(m, parent) == append_child(m, parent, LastNode(m))

\* stack_of_open_elements.push(weak reference to the node just created)
PushLast(m) == [m EXCEPT !.stack_of_open_elements = Append(@, LastNode(m))]

create_document_type_node(m, name, public_id, system_id) ==
    create_ref_node(m, DocumentTypeData(name, public_id, system_id), DOCUMENT_TYPE_NODE)

create_comment_node(m, data, parent_node, owner_document) ==
    SetLast(create_ref_node(m, CommentData(data), COMMENT_NODE), owner_document, parent_node)

\* stack_of_open_elements[len - 1]
current_node(m) == m.stack_of_open_elements[Len(m.stack_of_open_elements)]

appropriate_place_for_inserting_a_node(m) == current_node(m)

switch_to_insertion_mode(m, new_insertion_mode) ==
    Then(m, [m EXCEPT !.insertion_mode = new_insertion_mode])

create_element(m, owner, local_name) ==
    SetLast(create_ref_node(m, ElementData(local_name), ELEMENT_NODE), owner,
            appropriate_place_for_inserting_a_node(m))

create_element_node_for_token(m, tag_name) == create_element(m, document, tag_name)

create_text_node(m, data) ==
    SetLast(create_ref_node(m, TextData(data), TEXT_NODE), document,
            appropriate_place_for_inserting_a_node(m))

IsWhitespaceData(data) == data \in {<<"\t">>, <<"\n">>, <<"\f">>, <<"\r">>, <<" ">>}

html_name == <<"h","t","m","l">>
head_name == <<"h","e","a","d">>
body_name == <<"b","o","d","y">>
br_name == <<"b","r">>
about_legacy_compat ==
    <<"a","b","o","u","t",":","l","e","g","a","c","y","-","c","o","m","p","a","t">>

\* the element is appended to the document and pushed on the stack (BeforeHtml)
InsertHtmlElement(m, tag_name) ==
    switch_to_insertion_mode(
        PushLast(AppendLast(create_element_node_for_token(m, tag_name), document)),
        "BeforeHead")

\* a comment appended to the document (Initial, BeforeHtml)
InsertDocumentComment(m, data) ==
    AppendLast(create_comment_node(m, data, document, document), document)

\* the Initial mode going straight to BeforeHead
ParseInitialSkippingBeforeHtml(m, html_token) == switch_to_insertion_mode(m, "BeforeHead")

ParseInitial(m, html_token) ==
    CASE html_token.token_type = "Character" -> m
      [] html_token.token_type = "Comment" -> InsertDocumentComment(m, html_token.data)
      [] html_token.token_type = "DocType" ->
            IF \/ html_token.name # html_name
               \/ Len(html_token.public_identifier) # 0
               \/ (Len(html_token.system_identifier) # 0
                     /\ html_token.system_identifier # about_legacy_compat)
            THEN Abort(m)
            ELSE switch_to_insertion_mode(
                    AppendLast(create_document_type_node(m, html_token.name,
                                    html_token.public_identifier, html_token.system_identifier),
                               document),
                    "BeforeHtml")
      [] OTHER -> switch_to_insertion_mode(m, "BeforeHtml")

ParseBeforeHtml(m, html_token) ==
    CASE html_token.token_type = "DocType" -> Abort(m)
      [] html_token.token_type = "Comment" -> InsertDocumentComment(m, html_token.data)
      [] html_token.token_type = "Character" -> m
      [] html_token.token_type = "StartTag" ->
            IF html_token.tag_name = html_name THEN InsertHtmlElement(m, html_token.tag_name) ELSE m
      [] html_token.token_type = "EndTag" ->
            IF html_token.tag_name \in {head_name, body_name, html_name, br_name}
            THEN InsertHtmlElement(m, html_token.tag_name)
            ELSE Abort(m)
      [] OTHER -> m

\* appropriate_place_for_inserting_a_node(None).upgrade(): NoNode when the node is gone
PlaceToInsert(m) == upgrade(m, appropriate_place_for_inserting_a_node(m))

\* the node just created appended to the document whatever the current node is
AppendLastToDocument(m) == AppendLast(m, document)

\* .upgrade().unwrap().borrow_mut().append_child(node just created)
AppendLastAtPlace(m) ==
    IF PlaceToInsert(m) = NoNode THEN Abort(m) ELSE AppendLast(m, PlaceToInsert(m))

\* head_element = Some(weak reference to the node just created)
SetHeadElement(m) == [m EXCEPT !.head_element = LastNode(m)]

ParseBeforeHead(m, html_token) ==
    CASE html_token.token_type = "Character" -> m
      [] html_token.token_type = "Comment" ->
            IF PlaceToInsert(m) = NoNode THEN Abort(m)
            ELSE AppendLast(create_comment_node(m, html_token.data, PlaceToInsert(m), document),
                            PlaceToInsert(m))
      [] html_token.token_type = "DocType" -> Abort(m)
      [] html_token.token_type = "StartTag" ->
            CASE html_token.tag_name = html_name -> Abort(m)
              [] html_token.tag_name = head_name ->
                    switch_to_insertion_mode(
                        AppendLastAtPlace(SetHeadElement(
                            create_element_node_for_token(m, html_token.tag_name))),
                        "InHead")
              [] OTHER -> m
      [] html_token.token_type = "EndTag" -> Abort(m)
      [] OTHER -> m

\* stack_of_open_elements[len - 2].upgrade(): NoNode when there is no such entry or it is gone
NodeBeforeCurrent(m) ==
    IF Len(m.stack_of_open_elements) >= 2
    THEN upgrade(m, m.stack_of_open_elements[Len(m.stack_of_open_elements) - 1])
    ELSE NoNode

\* the text node is created, pushed on the stack and appended at `location`, which cannot
\* be borrowed mutably while the node before the current one is
InsertText(m, location, data) ==
    IF location = NodeBeforeCurrent(m) THEN Abort(PushLast(create_text_node(m, data)))
    ELSE AppendLast(PushLast(create_text_node(m, data)), location)

ParseInHead(m, html_token) ==
    IF html_token.token_type = "Character" /\ IsWhitespaceData(html_token.data)
    THEN IF PlaceToInsert(m) = NoNode THEN Abort(m)
         ELSE IF m.nodes[PlaceToInsert(m)].nodeType = DOCUMENT_NODE THEN m
         ELSE IF NodeBeforeCurrent(m) = NoNode THEN Abort(m)
         ELSE IF m.nodes[NodeBeforeCurrent(m)].data.kind = "Text"
              THEN [m EXCEPT !.nodes[NodeBeforeCurrent(m)].data.data = @ \o html_token.data]
              ELSE InsertText(m, PlaceToInsert(m), html_token.data)
    ELSE m

\* the token is logged in `received`, then handled by the insertion mode
Receive(m, html_token) == [m EXCEPT !.received = Append(@, html_token)]

ParseInMode(m, html_token) ==
    CASE m.insertion_mode = "Initial" -> ParseInitial(m, html_token)
      [] m.insertion_mode = "BeforeHtml" -> ParseBeforeHtml(m, html_token)
      [] m.insertion_mode = "BeforeHead" -> ParseBeforeHead(m, html_token)
      [] m.insertion_mode = "InHead" -> ParseInHead(m, html_token)
      [] OTHER -> m

parse_html_token(m, html_token) ==
    IF m.aborted THEN m ELSE ParseInMode(Receive(m, html_token), html_token)

-----------------------------------------------------------------------------
(* HtmlToken (src/src/html_token.rs) and the Tokenizer's helpers *)

\* HashMap::new()
EmptyAttributes == [name \in {} |-> Str0]

HtmlToken(token_type, name, force_quirks, data) ==
    [token_type |-> token_type, name |-> name, public_identifier |-> Str0,
     system_identifier |-> Str0, force_quirks |-> force_quirks, tag_name |-> Str0,
     self_closing |-> FALSE, attributes |-> EmptyAttributes, data |-> data]

create_doctype_html_token(name, force_quirks) == HtmlToken("DocType", name, force_quirks, Str0)
create_comment_html_token(character_data) == HtmlToken("Comment", Str0, FALSE, character_data)
create_start_tag_html_token == HtmlToken("StartTag", Str0, FALSE, Str0)
create_end_tag_html_token == HtmlToken("EndTag", Str0, FALSE, Str0)
create_character_html_token(character_data) == HtmlToken("Character", Str0, FALSE, <<character_data>>)
create_end_of_file_html_token == HtmlToken("EndOfFile", Str0, FALSE, Str0)

\* Tokenizer::parse_error prints the error; parse_errors is the list of the printed ones
parse_error(m, error) == Then(m, [m EXCEPT !.parse_errors = Append(@, error)])

\* self.html_tokens.push(token)
push(m, html_token) == Then(m, [m EXCEPT !.html_tokens = Append(@, html_token)])

\* html_tokens[len - 1]: with no token, len - 1 overflows or indexes out of bounds
emit_current_html_token(m) ==
    Then(m, IF Len(m.html_tokens) = 0 THEN Abort(m)
            ELSE parse_html_token(m, m.html_tokens[Len(m.html_tokens)]))

current_tag_token(m) == m.html_tokens[Len(m.html_tokens)]

\* self.current_tag_token().<field> = value
SetCurrent(m, field, value) ==
    Then(m, IF Len(m.html_tokens) = 0 THEN Abort(m)
            ELSE [m EXCEPT !.html_tokens[Len(m.html_tokens)][field] = value])

\* self.current_tag_token().<field>.push(c) / push_str(chars)
PushCurrent(m, field, chars) ==
    Then(m, IF Len(m.html_tokens) = 0 THEN Abort(m)
            ELSE [m EXCEPT !.html_tokens[Len(m.html_tokens)][field] = @ \o chars])

switch_to_tokenization_state(m, new_tokenization_state) ==
    Then(m, [m EXCEPT !.tokenization_state = new_tokenization_state])

reconsume_in_tokenization_state(m, new_tokenization_state) ==
    Then(m, [m EXCEPT !.tokenization_state = new_tokenization_state, !.reconsume_flag = TRUE])

SetReturnState(m, state) == Then(m, [m EXCEPT !.return_state = state])

append_to_temporary_buffer(m, chars) == Then(m, [m EXCEPT !.temporary_buffer = @ \o chars])

\* self.attribute_buffer.0 / .1
ResetAttributeBuffer(m) == Then(m, [m EXCEPT !.attribute_buffer = [name |-> Str0, value |-> Str0]])
PushAttributeName(m, c) == Then(m, [m EXCEPT !.attribute_buffer.name = Append(@, c)])
PushAttributeValue(m, chars) == Then(m, [m EXCEPT !.attribute_buffer.value = @ \o chars])

\* add_attribute_to_current_tag_token and the DuplicateAttribute report of its callers
add_attribute_to_current_tag_token(m, name, value) ==
    Then(m, IF Len(m.html_tokens) = 0 THEN Abort(m)
            ELSE IF name \in DOMAIN current_tag_token(m).attributes
                 THEN parse_error(m, "DuplicateAttribute")
                 ELSE SetCurrent(m, "attributes",
                        [n \in DOMAIN current_tag_token(m).attributes \cup {name} |->
                            IF n = name THEN value ELSE current_tag_token(m).attributes[n]]))

AddBufferedAttribute(m) ==
    Then(m, add_attribute_to_current_tag_token(m, m.attribute_buffer.name, m.attribute_buffer.value))

AttributeValueStates ==
    {"AttributeValueDoubleQuoted", "AttributeValueSingleQuoted", "AttributeValueUnquoted"}

RECURSIVE PushCharacters(_, _)
\* one Character token per character of `chars`, none of them emitted
PushCharacters(m, chars) ==
    IF chars = <<>> THEN m
    ELSE PushCharacters(push(m, create_character_html_token(Head(chars))), Tail(chars))

\* "flush code points consumed as a character reference"
FlushTemporaryBuffer(m) ==
    Then(m, IF m.return_state \in AttributeValueStates
            THEN PushAttributeValue(m, m.temporary_buffer)
            ELSE PushCharacters(m, m.temporary_buffer))

\* the EOF token pushed and handed to the tree constructor
EmitEndOfFile(m) == emit_current_html_token(push(m, create_end_of_file_html_token))

\* Lexer position updates on the machine
Advance(m) == Then(m, [m EXCEPT !.position = advance(@)])
Rewind(m, amount) ==
    Then(m, IF rewind_overflows(m.position, amount) THEN Abort(m)
            ELSE [m EXCEPT !.position = rewind(@, amount)])

-----------------------------------------------------------------------------
(* Tokenizer::match_characters *)

\* Option::unwrap on the result of a Lexer read
IsSome(character) == character \notin {None, Panic}

RECURSIVE MatchLoop(_, _, _, _)
\* the `for character in word.chars()` loop: [m, all_characters_match]
MatchLoop(m, word, characters_matched_amount, all_characters_match) ==
    IF m.aborted \/ word = <<>>
    THEN [m |-> m, all_characters_match |-> all_characters_match]
    ELSE LET peeked_character == previous(m.position)
         IN  IF ~IsSome(peeked_character)
             THEN [m |-> Abort(m), all_characters_match |-> FALSE]
             ELSE IF to_ascii_lowercase(peeked_character) = to_ascii_lowercase(Head(word))
                  THEN MatchLoop(Advance(m), Tail(word), characters_matched_amount + 1, TRUE)
                  ELSE MatchLoop(Rewind(m, characters_matched_amount), Tail(word),
                                 characters_matched_amount, FALSE)

\* self.lexer.rewind(1); return all_characters_match
MatchEnd(loop) == [m |-> Rewind(loop.m, 1), all_characters_match |-> loop.all_characters_match]

match_characters(m, word) == MatchEnd(MatchLoop(m, word, 0, FALSE))

-----------------------------------------------------------------------------
(* Character references *)

\* The named character reference table.  The table of the source has 2231 entries; these
\* are the ones that the inputs of the model can match, and for every prefix of an entry
\* that those inputs can spell, one entry with that prefix.  `characters` is the entry's
\* "characters" string; a character outside ASCII is written "U+XXXX".
NamedCharacterReferences ==
    {
      [character_reference |-> <<"&","a","a","c","u","t","e">>, characters |-> <<"U+00E1">>],
      [character_reference |-> <<"&","a","g","r","a","v","e">>, characters |-> <<"U+00E0">>],
      [character_reference |-> <<"&","a","m","p">>, characters |-> <<"&">>],
      [character_reference |-> <<"&","a","m","p",";">>, characters |-> <<"&">>],
      [character_reference |-> <<"&","a","t","i","l","d","e">>, characters |-> <<"U+00E3">>],
      [character_reference |-> <<"&","g","a","p",";">>, characters |-> <<"U+2A86">>],
      [character_reference |-> <<"&","g","g",";">>, characters |-> <<"U+226B">>],
      [character_reference |-> <<"&","g","g","g",";">>, characters |-> <<"U+22D9">>],
      [character_reference |-> <<"&","g","t">>, characters |-> <<">">>],
      [character_reference |-> <<"&","g","t",";">>, characters |-> <<">">>],
      [character_reference |-> <<"&","l","t">>, characters |-> <<"<">>],
      [character_reference |-> <<"&","l","t",";">>, characters |-> <<"<">>],
      [character_reference |-> <<"&","n","o","t">>, characters |-> <<"U+00AC">>],
      [character_reference |-> <<"&","n","o","t",";">>, characters |-> <<"U+00AC">>],
      [character_reference |-> <<"&","n","o","t","i","n",";">>, characters |-> <<"U+2209">>],
      [character_reference |-> <<"&","t","a","u",";">>, characters |-> <<"U+03C4">>]
    }

starts_with(string, prefix) ==
    Len(prefix) <= Len(string) /\ SubSeq(string, 1, Len(prefix)) = prefix

\* `has_any` of the NamedCharacterReference state
has_any(characters) ==
    \E obj \in NamedCharacterReferences : starts_with(obj.character_reference, <<"&">> \o characters)

found_in_named_character_reference_table(characters) ==
    \E obj \in NamedCharacterReferences : obj.character_reference = <<"&">> \o characters

\* Some(characters) of the entry; only called on a reference that is in the table
get_characters_by_character_reference(character_reference) ==
    (CHOOSE obj \in NamedCharacterReferences :
        obj.character_reference = <<"&">> \o character_reference).characters

RECURSIVE NamedLoop(_, _, _, _)
\* the `while match_found != true && character.is_some()` loop of the
\* NamedCharacterReference state: [m, current_character_reference, character, match_found]
NamedLoop(m, current_character_reference, character, match_found) ==
    IF m.aborted \/ match_found \/ character = None
    THEN [m |-> m, current_character_reference |-> current_character_reference,
          character |-> character, match_found |-> match_found]
    ELSE LET reference == Append(current_character_reference, character)
             m1 == append_to_temporary_buffer(m, <<character>>)
             peeked == peek(m1.position)
         IN  IF ~has_any(reference)
             THEN [m |-> m1, current_character_reference |-> reference,
                   character |-> character, match_found |-> FALSE]
             ELSE IF found_in_named_character_reference_table(reference)
                  THEN IF ~IsSome(peeked)
                       THEN NamedLoop(Abort(m1), reference, character, TRUE)
                       ELSE IF peeked = ";"
                            THEN NamedLoop(Advance(m1), reference, peek(advance(m1.position)), TRUE)
                            ELSE NamedLoop(m1, reference, character, TRUE)
                  ELSE IF peeked = Panic
                       THEN NamedLoop(Abort(m1), reference, character, FALSE)
                       ELSE NamedLoop(Advance(m1), reference, peeked, FALSE)

\* the condition of the `if` after a match, with its unwraps: "panic", "attribute" or "other"
NamedMatchCase(m, character) ==
    IF m.return_state \in AttributeValueStates
    THEN LET before == rewindAndPeek(m.position, 1)
         IN  IF ~IsSome(before) THEN "panic"
             ELSE IF before = ";" THEN (IF IsSome(character) THEN "other" ELSE "panic")
             ELSE IF ~IsSome(character) THEN "panic"
             ELSE IF character = "=" \/ character \in AsciiAlphanumeric THEN "attribute"
             ELSE "other"
    ELSE IF IsSome(character) THEN "other" ELSE "panic"

\* the reference is replaced by the characters of its entry and flushed
ExpandReference(m, current_character_reference) ==
    switch_to_tokenization_state(
        FlushTemporaryBuffer([m EXCEPT !.temporary_buffer =
            get_characters_by_character_reference(current_character_reference)]),
        m.return_state)

\* what follows the loop
AfterNamedLoop(m, current_character_reference, character, match_found) ==
    IF m.aborted THEN m
    ELSE IF ~match_found
         THEN switch_to_tokenization_state(FlushTemporaryBuffer(m), "AmbiguousAmpersand")
    ELSE IF NamedMatchCase(m, character) = "panic" THEN Abort(m)
    ELSE IF NamedMatchCase(m, character) = "attribute"
         THEN switch_to_tokenization_state(PushAttributeValue(m, m.temporary_buffer),
                                           m.return_state)
    ELSE IF character # ";"
         THEN ExpandReference(parse_error(m, "MissingSemicolonAfterCharacterReference"),
                              current_character_reference)
    ELSE ExpandReference(m, current_character_reference)

NamedResult(loop) ==
    AfterNamedLoop(loop.m, loop.current_character_reference, loop.character, loop.match_found)

NamedCharacterReference(m, c) == NamedResult(NamedLoop(m, Str0, c, FALSE))

\* self.temporary_buffer = String::from(""); self.temporary_buffer.push('&')
ResetTemporaryBuffer(m) == [m EXCEPT !.temporary_buffer = <<"&">>]

CharacterReferenceAfterReset(m, c) ==
    CASE c = None -> m
      [] c \in AsciiAlphanumeric -> reconsume_in_tokenization_state(m, "NamedCharacterReference")
      [] c = "#" -> switch_to_tokenization_state(append_to_temporary_buffer(m, <<c>>),
                                                 "NumericCharacterReference")
      [] OTHER -> reconsume_in_tokenization_state(FlushTemporaryBuffer(m), m.return_state)

CharacterReference(m, c) == CharacterReferenceAfterReset(ResetTemporaryBuffer(m), c)

AmbiguousAmpersand(m, c) ==
    CASE c = None -> m
      [] c \in AsciiAlphanumeric ->
            IF m.return_state \in AttributeValueStates
            THEN PushAttributeValue(m, <<c>>)
            ELSE emit_current_html_token(push(m, create_character_html_token(c)))
      [] c = ";" -> reconsume_in_tokenization_state(
                        parse_error(m, "UnknownNamedCharacterReference"), m.return_state)
      [] OTHER -> reconsume_in_tokenization_state(m, m.return_state)

\* code - d in 32 bits
U32Sub(code, d) ==
    LET lo2 == code.lo - d
        hi2 == IF lo2 < 0 THEN code.hi - 1 ELSE code.hi
    IN  [value |-> [hi |-> (hi2 + 65536) % 65536, lo |-> (lo2 + 65536) % 65536],
         overflow |-> hi2 < 0]

\* character_reference_code = character_reference_code * base;
\* character_reference_code = character_reference_code + character as u32 - offset
AccumulateDigit(m, base, c, offset) ==
    LET product == U32Mul(m.character_reference_code, base)
        sum == U32Add(product.value, CharCode(c))
        difference == U32Sub(sum.value, offset)
    IN  Then(m, IF overflow_checks /\ (product.overflow \/ sum.overflow \/ difference.overflow)
                THEN Abort(m)
                ELSE [m EXCEPT !.character_reference_code = difference.value])

\* self.character_reference_code = 0
ResetCode(m) == [m EXCEPT !.character_reference_code = U32(0)]

NumericCharacterReference(m, c) ==
    CASE c = None -> ResetCode(m)
      [] c \in {"x", "X"} ->
            switch_to_tokenization_state(append_to_temporary_buffer(ResetCode(m), <<c>>),
                                         "HexadecimalCharacterReferenceStart")
      [] OTHER -> reconsume_in_tokenization_state(ResetCode(m), "DecimalCharacterReferenceStart")

HexadecimalCharacterReferenceStart(m, c) ==
    CASE c = None -> m
      [] c \in AsciiDigit \cup UpperHex \cup LowerHex ->
            reconsume_in_tokenization_state(m, "HexadecimalCharacterReference")
      [] OTHER ->
            reconsume_in_tokenization_state(
                FlushTemporaryBuffer(parse_error(m, "AbsenceOfDigitsInNumericCharacterReference")),
                m.return_state)

DecimalCharacterReferenceStart(m, c) ==
    CASE c = None -> m
      [] c \in AsciiDigit \cup UpperHex \cup LowerHex ->
            reconsume_in_tokenization_state(m, "DecimalCharacterReference")
      [] OTHER ->
            reconsume_in_tokenization_state(
                FlushTemporaryBuffer(parse_error(m, "AbsenceOfDigitsInNumericCharacterReference")),
                m.return_state)

HexadecimalCharacterReference(m, c) ==
    CASE c = None -> m
      [] c \in AsciiDigit -> AccumulateDigit(m, 16, c, 48)
      [] c \in UpperHex -> AccumulateDigit(m, 16, c, 55)
      [] c \in LowerHex -> AccumulateDigit(m, 16, c, 87)
      [] c = ";" -> switch_to_tokenization_state(m, "NumerticCharacterReferenceEnd")
      [] OTHER ->
            reconsume_in_tokenization_state(
                parse_error(m, "MissingSemicolonAfterCharacterReference"),
                "NumerticCharacterReferenceEnd")

DecimalCharacterReference(m, c) ==
    CASE c = None -> m
      [] c \in AsciiDigit -> AccumulateDigit(m, 10, c, 48)
      [] c = ";" -> switch_to_tokenization_state(m, "NumerticCharacterReferenceEnd")
      [] OTHER ->
            reconsume_in_tokenization_state(
                parse_error(m, "MissingSemicolonAfterCharacterReference"),
                "NumerticCharacterReferenceEnd")

\* is_non_character(value: u8): '\u{FDD0}' as u8 is 0xD0 and '\u{FDEF}' as u8 is 0xEF;
\* no u8 is one of the code points of the match
is_non_character(value) == value >= 208 \/ value <= 239

\* is_control(value: u8)
is_control(value) == (value >= 0 \/ value <= 31) \/ (value >= 127 \/ value <= 159)

\* is_ascii_whitespace(value: u8)
is_ascii_whitespace(value) == value \in {9, 10, 12, 13, 32}

\* number_character_references: the replacement of a code in 0x80..0x9F
number_character_references(code) ==
    CASE code = 128 -> 8364 [] code = 130 -> 8218 [] code = 131 -> 402  [] code = 132 -> 8222
      [] code = 133 -> 8230 [] code = 134 -> 8224 [] code = 135 -> 8225 [] code = 136 -> 710
      [] code = 137 -> 8240 [] code = 138 -> 352  [] code = 139 -> 8249 [] code = 140 -> 338
      [] code = 142 -> 381  [] code = 145 -> 8216 [] code = 146 -> 8217 [] code = 147 -> 8220
      [] code = 148 -> 8221 [] code = 149 -> 8226 [] code = 150 -> 8211 [] code = 151 -> 8212
      [] code = 152 -> 732  [] code = 153 -> 8482 [] code = 154 -> 353  [] code = 155 -> 8250
      [] code = 156 -> 339  [] code = 158 -> 382  [] code = 159 -> 376
      [] OTHER -> code

\* char::from_u32 of a code that is at most 0x10FFFF: Panic (None.unwrap()) for a surrogate
from_u32(code) ==
    CASE code = 0 -> NUL
      [] code = 9 -> "\t"
      [] code = 10 -> "\n"
      [] code = 12 -> "\f"
      [] code = 13 -> "\r"
      [] code >= 32 /\ code <= 126 -> Ascii[code - 31]
      [] code = 65533 -> REPLACEMENT_FEED_CHARACTER
      [] code >= 55296 /\ code <= 57343 -> Panic
      [] OTHER -> "&#" \o ToString(code) \o ";"

\* the chain of checks of the NumerticCharacterReferenceEnd state: [m, code]
CheckedCode(m) ==
    LET code == m.character_reference_code
        value == code.hi * 65536 + code.lo
    IN  IF code = U32(0)
        THEN [m |-> parse_error(m, "UnexpectedNullCharacter"), code |-> 65533]
        ELSE IF U32Gt(code, 1114111)
        THEN [m |-> parse_error(m, "CharacterReferenceOutsideUnicodeRange"), code |-> 65533]
        ELSE IF U32Ge(code, 55296) \/ U32Le(code, 57343)
        THEN [m |-> parse_error(m, "SurrogateCharacterReference"), code |-> 65533]
        ELSE IF is_non_character(AsU8(code))
        THEN [m |-> parse_error(m, "NonCharacterReference"), code |-> value]
        ELSE IF code = U32(13) \/ (is_control(AsU8(code)) /\ ~is_ascii_whitespace(AsU8(code)))
        THEN [m |-> parse_error(m, "ControlCharacterReference"), code |-> value]
        ELSE [m |-> m, code |-> number_character_references(value)]

\* the checked code becomes the only character of the temporary buffer, which is flushed
FlushCode(m, code) ==
    IF from_u32(code) = Panic THEN Abort(m)
    ELSE switch_to_tokenization_state(
            FlushTemporaryBuffer([m EXCEPT !.character_reference_code = U32(code),
                                           !.temporary_buffer = <<from_u32(code)>>]),
            m.return_state)

FlushChecked(checked) == FlushCode(checked.m, checked.code)

NumerticCharacterReferenceEnd(m, c) == FlushChecked(CheckedCode(m))

-----------------------------------------------------------------------------
(* The states of Tokenizer::next_token.  `c` is current_input_character:   *)
(* a character, or None at the end of the input.                           *)

\* Data state whose end-of-input arm produces no token
DataWithoutEndOfFile(m, c) ==
    CASE c = None -> m
      [] c = "&" -> switch_to_tokenization_state(SetReturnState(m, "Data"), "CharacterReference")
      [] c = "<" -> switch_to_tokenization_state(m, "TagOpen")
      [] OTHER -> push(m, create_character_html_token(c))

Data(m, c) ==
    CASE c = None -> push(m, create_end_of_file_html_token)
      [] c = "&" -> switch_to_tokenization_state(SetReturnState(m, "Data"), "CharacterReference")
      [] c = "<" -> switch_to_tokenization_state(m, "TagOpen")
      [] c = NUL -> push(parse_error(m, "UnexpectedNullCharacter"), create_character_html_token(c))
      [] OTHER -> push(m, create_character_html_token(c))

TagOpen(m, c) ==
    CASE c = None ->
            EmitEndOfFile(emit_current_html_token(
                push(parse_error(m, "EndOfFileBeforeTagName"), create_character_html_token("<"))))
      [] c = "!" -> switch_to_tokenization_state(m, "MarkupDeclarationOpen")
      [] c = "/" -> switch_to_tokenization_state(m, "EndTagOpen")
      [] c \in AsciiAlpha ->
            reconsume_in_tokenization_state(push(m, create_start_tag_html_token), "TagName")
      [] c = "?" ->
            reconsume_in_tokenization_state(
                push(parse_error(m, "UnexpectedQuestionMarkInsteadOfTagName"),
                     create_comment_html_token(Str0)),
                "BogusComment")
      [] OTHER ->
            reconsume_in_tokenization_state(
                emit_current_html_token(
                    push(parse_error(m, "InvalidFirstCharacterOfTagName"),
                         create_character_html_token("<"))),
                "Data")

EndTagOpen(m, c) ==
    CASE c = None ->
            EmitEndOfFile(
                emit_current_html_token(push(
                    emit_current_html_token(
                        push(parse_error(m, "EndOfFileBeforeTagName"),
                             create_character_html_token("<"))),
                    create_character_html_token("/"))))
      [] c \in AsciiAlpha ->
            reconsume_in_tokenization_state(push(m, create_end_tag_html_token), "TagName")
      [] c = ">" -> switch_to_tokenization_state(parse_error(m, "MissingEndTagName"), "Data")
      [] OTHER ->
            reconsume_in_tokenization_state(
                push(parse_error(m, "InvalidFirstCharacterOfTagName"),
                     create_comment_html_token(Str0)),
                "BogusComment")

TagName(m, c) ==
    CASE c = None -> EmitEndOfFile(parse_error(m, "EndOfFileInTag"))
      [] c \in Whitespace -> switch_to_tokenization_state(m, "BeforeAttributeName")
      [] c = "/" -> switch_to_tokenization_state(m, "SelfClosingStartTag")
      [] c = ">" -> emit_current_html_token(switch_to_tokenization_state(m, "Data"))
      [] c \in AsciiUpper -> PushCurrent(m, "tag_name", <<to_ascii_lowercase(c)>>)
      [] c = NUL ->
            PushCurrent(parse_error(m, "UnexpectedNullCharacter"), "tag_name",
                        <<REPLACEMENT_FEED_CHARACTER>>)
      [] OTHER -> PushCurrent(m, "tag_name", <<c>>)

BeforeAttributeName(m, c) ==
    CASE c = None -> reconsume_in_tokenization_state(m, "AfterAttributeName")
      [] c \in Whitespace -> m
      [] c \in {"/", ">"} -> reconsume_in_tokenization_state(m, "AfterAttributeName")
      [] c = "=" ->
            switch_to_tokenization_state(
                parse_error(m, "UnexpectedEqualsSignBeforeAttributeName"), "AttributeName")
      [] OTHER -> reconsume_in_tokenization_state(ResetAttributeBuffer(m), "AttributeName")

AttributeName(m, c) ==
    CASE c = None -> reconsume_in_tokenization_state(m, "AfterAttributeName")
      [] c \in Whitespace \cup {"/", ">"} -> reconsume_in_tokenization_state(m, "AfterAttributeName")
      [] c = "=" -> switch_to_tokenization_state(m, "BeforeAttributeValue")
      [] c \in AsciiUpper -> PushAttributeName(m, to_ascii_lowercase(c))
      [] c = NUL ->
            PushAttributeName(parse_error(m, "UnexpectedNullCharacter"), REPLACEMENT_FEED_CHARACTER)
      [] c \in {"\"", "'", "<"} ->
            PushAttributeName(parse_error(m, "UnexpectedCharacterInAttributeName"), c)
      [] OTHER -> PushAttributeName(m, c)

AfterAttributeName(m, c) ==
    CASE c = None -> EmitEndOfFile(parse_error(m, "EndOfFileInTag"))
      [] c \in Whitespace -> m
      [] c = "/" -> switch_to_tokenization_state(m, "SelfClosingStartTag")
      [] c = "=" -> switch_to_tokenization_state(m, "BeforeAttributeValue")
      [] c = ">" -> AddBufferedAttribute(switch_to_tokenization_state(m, "Data"))
      [] OTHER -> reconsume_in_tokenization_state(ResetAttributeBuffer(m), "AttributeName")

BeforeAttributeValue(m, c) ==
    CASE c = None -> m
      [] c \in Whitespace -> m
      [] c = "\"" -> switch_to_tokenization_state(m, "AttributeValueDoubleQuoted")
      [] c = "'" -> switch_to_tokenization_state(m, "AttributeValueSingleQuoted")
      [] c = ">" -> switch_to_tokenization_state(parse_error(m, "MissingAttributeValue"), "Data")
      [] OTHER -> reconsume_in_tokenization_state(m, "AttributeValueUnquoted")

\* AttributeValueDoubleQuoted and AttributeValueSingleQuoted differ in the quote only
AttributeValueQuoted(m, c, quote, this_state) ==
    CASE c = None -> EmitEndOfFile(parse_error(m, "EndOfFileInTag"))
      [] c = quote ->
            AddBufferedAttribute(switch_to_tokenization_state(m, "AfterAttributeValueQuoted"))
      [] c = "&" ->
            switch_to_tokenization_state(SetReturnState(m, this_state), "CharacterReference")
      [] c = NUL ->
            PushAttributeValue(parse_error(m, "UnexpectedNullCharacter"),
                               <<REPLACEMENT_FEED_CHARACTER>>)
      [] OTHER -> PushAttributeValue(m, <<c>>)

AttributeValueDoubleQuoted(m, c) == AttributeValueQuoted(m, c, "\"", "AttributeValueDoubleQuoted")

AttributeValueSingleQuoted(m, c) == AttributeValueQuoted(m, c, "'", "AttributeValueSingleQuoted")

AttributeValueUnquoted(m, c) ==
    CASE c = None -> EmitEndOfFile(parse_error(m, "EndOfFileInTag"))
      [] c \in Whitespace ->
            AddBufferedAttribute(switch_to_tokenization_state(m, "BeforeAttributeName"))
      [] c = "&" ->
            switch_to_tokenization_state(SetReturnState(m, "AttributeValueUnquoted"),
                                         "CharacterReference")
      [] c = ">" -> switch_to_tokenization_state(m, "Data")
      [] c \in {"\"", "'", "<", "=", GRAVE} ->
            parse_error(m, "UnexpectedCharacterInUnquotedAttributeValue")
      [] OTHER -> PushAttributeValue(m, <<c>>)

AfterAttributeValueQuoted(m, c) ==
    CASE c = None -> EmitEndOfFile(parse_error(m, "EndOfFileInTag"))
      [] c \in Whitespace -> switch_to_tokenization_state(m, "BeforeAttributeName")
      [] c = "/" -> switch_to_tokenization_state(m, "SelfClosingStartTag")
      [] c = ">" -> switch_to_tokenization_state(m, "Data")
      [] OTHER ->
            reconsume_in_tokenization_state(
                parse_error(m, "WhitespaceMissingBetweenAttributes"), "BeforeAttributeName")

SelfClosingStartTag(m, c) ==
    CASE c = None -> EmitEndOfFile(parse_error(m, "EndOfFileInTag"))
      [] c = ">" ->
            emit_current_html_token(
                switch_to_tokenization_state(SetCurrent(m, "self_closing", TRUE), "Data"))
      [] OTHER ->
            reconsume_in_tokenization_state(parse_error(m, "UnexpectedSolidusInTag"),
                                            "BeforeAttributeName")

BogusComment(m, c) ==
    CASE c = None -> EmitEndOfFile(m)
      [] c = ">" -> emit_current_html_token(switch_to_tokenization_state(m, "Data"))
      [] c = NUL ->
            PushCurrent(parse_error(m, "UnexpectedNullCharacter"), "data",
                        <<REPLACEMENT_FEED_CHARACTER>>)
      [] OTHER -> PushCurrent(m, "data", <<c>>)

\* `if self.match_characters(word) { matched } `: nothing else happens when it fails
IfMatched(result, matched_state, with_comment) ==
    IF result.m.aborted \/ ~result.all_characters_match THEN result.m
    ELSE switch_to_tokenization_state(
            IF with_comment THEN push(result.m, create_comment_html_token(Str0)) ELSE result.m,
            matched_state)

IfMatch(m, word, matched_state, with_comment) ==
    IfMatched(match_characters(m, word), matched_state, with_comment)

\* "[CDATA[" matched: todo!()
IfMatchedCdata(result) ==
    IF result.m.aborted \/ ~result.all_characters_match THEN result.m ELSE Abort(result.m)

IfMatchCdata(m) == IfMatchedCdata(match_characters(m, <<"[","C","D","A","T","A","[">>))

MarkupDeclarationOpen(m, c) ==
    CASE c = None -> m
      [] c = "-" -> IfMatch(m, <<"-","-">>, "CommentStart", TRUE)
      [] c \in {"D", "d"} -> IfMatch(m, <<"D","O","C","T","Y","P","E">>, "Doctype", FALSE)
      [] c = "[" -> IfMatchCdata(m)
      [] OTHER ->
            switch_to_tokenization_state(
                push(parse_error(m, "IncorrectlyOpenedComment"), create_comment_html_token(Str0)),
                "BogusComment")

\* the comment closed with a parse error
AbruptClose(m, error) ==
    emit_current_html_token(switch_to_tokenization_state(parse_error(m, error), "Data"))

CommentStart(m, c) ==
    CASE c = None -> m
      [] c = "-" -> switch_to_tokenization_state(m, "CommentStartDash")
      [] c = ">" -> AbruptClose(m, "AbruptClosingOfEmptyComment")
      [] OTHER -> reconsume_in_tokenization_state(m, "Comment")

CommentStartDash(m, c) ==
    CASE c = None -> EmitEndOfFile(parse_error(m, "EndOfFileInComment"))
      [] c = "-" -> switch_to_tokenization_state(m, "CommentEnd")
      [] c = ">" -> AbruptClose(m, "AbruptClosingOfEmptyComment")
      [] OTHER -> reconsume_in_tokenization_state(PushCurrent(m, "data", <<"-">>), "Comment")

Comment(m, c) ==
    CASE c = None -> EmitEndOfFile(parse_error(m, "EndOfFileInComment"))
      [] c = "<" ->
            switch_to_tokenization_state(PushCurrent(m, "data", <<c>>), "CommentLessThanSign")
      [] c = "-" -> switch_to_tokenization_state(m, "CommentEndDash")
      [] c = NUL ->
            PushCurrent(parse_error(m, "UnexpectedNullCharacter"), "data",
                        <<REPLACEMENT_FEED_CHARACTER>>)
      [] OTHER -> PushCurrent(m, "data", <<c>>)

CommentLessThanSign(m, c) ==
    CASE c = None -> m
      [] c = "!" ->
            switch_to_tokenization_state(PushCurrent(m, "data", <<c>>), "CommentLessThanSignBang")
      [] c = "<" -> PushCurrent(m, "data", <<c>>)
      [] OTHER -> reconsume_in_tokenization_state(m, "Comment")

CommentLessThanSignBang(m, c) ==
    CASE c = None -> m
      [] c = "-" -> switch_to_tokenization_state(m, "CommentLessThanSignBangDash")
      [] OTHER -> reconsume_in_tokenization_state(m, "Comment")

CommentLessThanSignBangDash(m, c) ==
    CASE c = None -> m
      [] c = "-" -> switch_to_tokenization_state(m, "CommentLessThanSignBangDashDash")
      [] OTHER -> reconsume_in_tokenization_state(m, "CommentEnd")

CommentLessThanSignBangDashDash(m, c) ==
    CASE c = None -> reconsume_in_tokenization_state(m, "CommentEnd")
      [] c = ">" -> reconsume_in_tokenization_state(m, "CommentEnd")
      [] OTHER -> reconsume_in_tokenization_state(parse_error(m, "NestedComment"), "CommentEnd")

CommentEndDash(m, c) ==
    CASE c = None -> EmitEndOfFile(parse_error(m, "EndOfFileInComment"))
      [] c = "-" -> switch_to_tokenization_state(m, "CommentEnd")
      [] OTHER -> reconsume_in_tokenization_state(PushCurrent(m, "data", <<"-">>), "Comment")

CommentEnd(m, c) ==
    CASE c = None -> EmitEndOfFile(parse_error(m, "EndOfFileInComment"))
      [] c = ">" -> emit_current_html_token(switch_to_tokenization_state(m, "Data"))
      [] c = "!" -> switch_to_tokenization_state(m, "CommentEndBang")
      [] c = "-" -> PushCurrent(m, "data", <<"-">>)
      [] OTHER -> reconsume_in_tokenization_state(PushCurrent(m, "data", <<"-","-">>), "Comment")

CommentEndBang(m, c) ==
    CASE c = None -> EmitEndOfFile(parse_error(m, "EndOfFileInComment"))
      [] c = "-" ->
            switch_to_tokenization_state(PushCurrent(m, "data", <<"-","-","!">>), "CommentEndDash")
      [] c = ">" -> AbruptClose(m, "IncorrectlyClosedComment")
      [] OTHER -> switch_to_tokenization_state(PushCurrent(m, "data", <<"-","-","!">>), "Comment")

ForceQuirks(m) == SetCurrent(m, "force_quirks", TRUE)

\* the None arm of the DOCTYPE states once a DOCTYPE token exists: the token is flagged
\* and the EOF token is pushed and emitted
DoctypeEndOfFile(m) == EmitEndOfFile(ForceQuirks(parse_error(m, "EndOFileInDoctype")))

\* the None arm of Doctype and BeforeDoctypeName: a DOCTYPE token is created and emitted first
NewDoctypeEndOfFile(m) ==
    EmitEndOfFile(emit_current_html_token(ForceQuirks(
        push(parse_error(m, "EndOFileInDoctype"), create_doctype_html_token(Str0, TRUE)))))

\* parse error, force-quirks, token emitted, back to Data
QuirksClose(m, error) ==
    emit_current_html_token(
        switch_to_tokenization_state(ForceQuirks(parse_error(m, error)), "Data"))

\* parse error, force-quirks, reconsume in BogusDoctype
QuirksBogus(m, error) ==
    reconsume_in_tokenization_state(ForceQuirks(parse_error(m, error)), "BogusDoctype")

Doctype(m, c) ==
    CASE c = None -> NewDoctypeEndOfFile(m)
      [] c \in Whitespace -> switch_to_tokenization_state(m, "BeforeDoctypeName")
      [] c = ">" -> reconsume_in_tokenization_state(m, "BeforeDoctypeName")
      [] OTHER ->
            reconsume_in_tokenization_state(
                parse_error(m, "MissingWhitespaceBeforeDoctypeName"), "BeforeDoctypeName")

BeforeDoctypeName(m, c) ==
    CASE c = None -> NewDoctypeEndOfFile(m)
      [] c \in Whitespace -> m
      [] c \in AsciiUpper ->
            switch_to_tokenization_state(
                push(m, create_doctype_html_token(<<to_ascii_lowercase(c)>>, FALSE)), "DoctypeName")
      [] c = NUL ->
            switch_to_tokenization_state(
                push(parse_error(m, "UnexpectedNullCharacter"),
                     create_doctype_html_token(<<REPLACEMENT_FEED_CHARACTER>>, FALSE)),
                "DoctypeName")
      [] c = ">" ->
            switch_to_tokenization_state(
                push(parse_error(m, "MissingDoctypeName"), create_doctype_html_token(Str0, TRUE)),
                "Data")
      [] OTHER ->
            switch_to_tokenization_state(push(m, create_doctype_html_token(<<c>>, FALSE)),
                                         "DoctypeName")

DoctypeName(m, c) ==
    CASE c = None -> DoctypeEndOfFile(m)
      [] c \in Whitespace -> switch_to_tokenization_state(m, "AfterDoctypeName")
      [] c = ">" -> emit_current_html_token(switch_to_tokenization_state(m, "Data"))
      [] c \in AsciiUpper -> PushCurrent(m, "name", <<to_ascii_lowercase(c)>>)
      [] c = NUL ->
            PushCurrent(parse_error(m, "UnexpectedNullCharacter"), "name",
                        <<REPLACEMENT_FEED_CHARACTER>>)
      [] OTHER -> PushCurrent(m, "name", <<c>>)

\* if match_characters("PUBLIC") .. else if match_characters("SYSTEM") .. else ..
IfSystem(system) ==
    IF system.m.aborted THEN system.m
    ELSE IF system.all_characters_match
         THEN switch_to_tokenization_state(system.m, "AfterDoctypeSystemKeyword")
    ELSE QuirksBogus(system.m, "InvalidCharacterSequenceAfterDoctypeName")

IfPublic(public) ==
    IF public.m.aborted THEN public.m
    ELSE IF public.all_characters_match
         THEN switch_to_tokenization_state(public.m, "AfterDoctypePublicKeyword")
    ELSE IfSystem(match_characters(public.m, <<"S","Y","S","T","E","M">>))

MatchPublicOrSystem(m) == IfPublic(match_characters(m, <<"P","U","B","L","I","C">>))

AfterDoctypeName(m, c) ==
    CASE c = None -> DoctypeEndOfFile(m)
      [] c \in Whitespace -> m
      [] c = ">" -> emit_current_html_token(switch_to_tokenization_state(m, "Data"))
      [] OTHER -> MatchPublicOrSystem(m)

\* a quote opens an identifier: `field` is reset and the tokenizer moves to the quoted state
OpenIdentifier(m, c, field, double_quoted, single_quoted) ==
    switch_to_tokenization_state(SetCurrent(m, field, Str0),
                                 IF c = "\"" THEN double_quoted ELSE single_quoted)

AfterDoctypePublicKeyword(m, c) ==
    CASE c = None -> DoctypeEndOfFile(m)
      [] c \in Whitespace -> switch_to_tokenization_state(m, "BeforeDoctypePublicIdentifier")
      [] c \in {"\"", "'"} ->
            OpenIdentifier(parse_error(m, "MissingWhitespaceAfterDoctypePublicKeyword"), c,
                           "public_identifier", "DoctypePublicIdentifierDoubleQuoted",
                           "DoctypePublicIdentifierSingleQuoted")
      [] c = ">" -> QuirksClose(m, "MissingDoctypePublicIdentifier")
      [] OTHER -> QuirksBogus(m, "MissingQuoteBeforeDoctypePublicIdentifier")

BeforeDoctypePublicIdentifier(m, c) ==
    CASE c = None -> DoctypeEndOfFile(m)
      [] c \in Whitespace -> m
      [] c \in {"\"", "'"} ->
            OpenIdentifier(m, c, "public_identifier", "DoctypePublicIdentifierDoubleQuoted",
                           "DoctypePublicIdentifierSingleQuoted")
      [] c = ">" -> QuirksClose(m, "MissingDoctypePublicIdentifier")
      [] OTHER -> QuirksBogus(m, "MissingQuoteBeforeDoctypePublicIdentifier")

\* the four quoted identifier states differ in the quote, the field, the next state and the error
DoctypeIdentifierQuoted(m, c, quote, field, after_state, abrupt_error) ==
    CASE c = None -> DoctypeEndOfFile(m)
      [] c = quote -> switch_to_tokenization_state(m, after_state)
      [] c = NUL ->
            PushCurrent(parse_error(m, "UnexpectedNullCharacter"), field,
                        <<REPLACEMENT_FEED_CHARACTER>>)
      [] c = ">" -> QuirksClose(m, abrupt_error)
      [] OTHER -> PushCurrent(m, field, <<c>>)

DoctypePublicIdentifierDoubleQuoted(m, c) ==
    DoctypeIdentifierQuoted(m, c, "\"", "public_identifier", "AfterDoctypePublicIdentifier",
                            "AbruptDoctypePublicIdentifier")

DoctypePublicIdentifierSingleQuoted(m, c) ==
    DoctypeIdentifierQuoted(m, c, "'", "public_identifier", "AfterDoctypePublicIdentifier",
                            "AbruptDoctypePublicIdentifier")

\* a quote here resets public_identifier, not system_identifier
AfterDoctypePublicIdentifier(m, c) ==
    CASE c = None -> DoctypeEndOfFile(m)
      [] c \in Whitespace ->
            switch_to_tokenization_state(m, "BetweenDoctypePublicAndSystemIdentifiers")
      [] c = ">" -> emit_current_html_token(switch_to_tokenization_state(m, "Data"))
      [] c \in {"\"", "'"} ->
            OpenIdentifier(
                parse_error(m, "MissingWhitespaceBetweenDoctypePublicAndSystemIdentifiers"), c,
                "public_identifier", "DoctypeSystemIdentifierDoubleQuoted",
                "DoctypeSystemIdentifierSingleQuoted")
      [] OTHER -> QuirksBogus(m, "MissingQuoteBeforeDoctypeSystemIdentifier")

BetweenDoctypePublicAndSystemIdentifiers(m, c) ==
    CASE c = None -> DoctypeEndOfFile(m)
      [] c \in Whitespace -> m
      [] c = ">" -> emit_current_html_token(switch_to_tokenization_state(m, "Data"))
      [] c \in {"\"", "'"} ->
            OpenIdentifier(m, c, "system_identifier", "DoctypeSystemIdentifierDoubleQuoted",
                           "DoctypeSystemIdentifierSingleQuoted")
      [] OTHER -> QuirksBogus(m, "MissingQuoteBeforeDoctypeSystemIdentifier")

AfterDoctypeSystemKeyword(m, c) ==
    CASE c = None -> DoctypeEndOfFile(m)
      [] c \in Whitespace -> switch_to_tokenization_state(m, "BeforeDoctypeSystemIdentifier")
      [] c \in {"\"", "'"} ->
            OpenIdentifier(parse_error(m, "MissingWhitespaceAfterDoctypeSystemKeyword"), c,
                           "system_identifier", "DoctypeSystemIdentifierDoubleQuoted",
                           "DoctypeSystemIdentifierSingleQuoted")
      [] c = ">" -> QuirksClose(m, "MissingDoctypeSystemIdentifier")
      [] OTHER -> QuirksBogus(m, "MissingQuoteBeforeDoctypeSystemIdentifier")

BeforeDoctypeSystemIdentifier(m, c) ==
    CASE c = None -> DoctypeEndOfFile(m)
      [] c \in Whitespace -> m
      [] c \in {"\"", "'"} ->
            OpenIdentifier(m, c, "system_identifier", "DoctypeSystemIdentifierDoubleQuoted",
                           "DoctypeSystemIdentifierSingleQuoted")
      [] c = ">" -> QuirksClose(m, "MissingDoctypeSystemIdentifier")
      [] OTHER -> QuirksBogus(m, "MissingQuoteBeforeDoctypeSystemIdentifier")

DoctypeSystemIdentifierDoubleQuoted(m, c) ==
    DoctypeIdentifierQuoted(m, c, "\"", "system_identifier", "AfterDoctypeSystemIdentifier",
                            "AbruptDoctypeSystemIdentifier")

DoctypeSystemIdentifierSingleQuoted(m, c) ==
    DoctypeIdentifierQuoted(m, c, "'", "system_identifier", "AfterDoctypeSystemIdentifier",
                            "AbruptDoctypeSystemIdentifier")

AfterDoctypeSystemIdentifier(m, c) ==
    CASE c = None -> DoctypeEndOfFile(m)
      [] c \in Whitespace -> m
      [] c = ">" -> emit_current_html_token(switch_to_tokenization_state(m, "Data"))
      [] OTHER ->
            reconsume_in_tokenization_state(
                parse_error(m, "UnexpectedCharacterAfterDoctypeSystemIdentifier"), "BogusDoctype")

BogusDoctype(m, c) ==
    CASE c = None -> EmitEndOfFile(m)
      [] c = ">" -> emit_current_html_token(switch_to_tokenization_state(m, "Data"))
      [] c = NUL -> parse_error(m, "UnexpectedNullCharacter")
      [] OTHER -> m

-----------------------------------------------------------------------------
(* Tokenizer::next_token: the handler of the current tokenization state.   *)
(* The states that no input can reach from Data (RCDATA, RAWTEXT, script   *)
(* data, PLAINTEXT, CDATA section) leave the machine as it is.             *)

next_token(m, c) ==
    CASE m.tokenization_state = "Data" -> Data(m, c)
      [] m.tokenization_state = "TagOpen" -> TagOpen(m, c)
      [] m.tokenization_state = "EndTagOpen" -> EndTagOpen(m, c)
      [] m.tokenization_state = "TagName" -> TagName(m, c)
      [] m.tokenization_state = "BeforeAttributeName" -> BeforeAttributeName(m, c)
      [] m.tokenization_state = "AttributeName" -> AttributeName(m, c)
      [] m.tokenization_state = "AfterAttributeName" -> AfterAttributeName(m, c)
      [] m.tokenization_state = "BeforeAttributeValue" -> BeforeAttributeValue(m, c)
      [] m.tokenization_state = "AttributeValueDoubleQuoted" -> AttributeValueDoubleQuoted(m, c)
      [] m.tokenization_state = "AttributeValueSingleQuoted" -> AttributeValueSingleQuoted(m, c)
      [] m.tokenization_state = "AttributeValueUnquoted" -> AttributeValueUnquoted(m, c)
      [] m.tokenization_state = "AfterAttributeValueQuoted" -> AfterAttributeValueQuoted(m, c)
      [] m.tokenization_state = "SelfClosingStartTag" -> SelfClosingStartTag(m, c)
      [] m.tokenization_state = "BogusComment" -> BogusComment(m, c)
      [] m.tokenization_state = "MarkupDeclarationOpen" -> MarkupDeclarationOpen(m, c)
      [] m.tokenization_state = "CommentStart" -> CommentStart(m, c)
      [] m.tokenization_state = "CommentStartDash" -> CommentStartDash(m, c)
      [] m.tokenization_state = "Comment" -> Comment(m, c)
      [] m.tokenization_state = "CommentLessThanSign" -> CommentLessThanSign(m, c)
      [] m.tokenization_state = "CommentLessThanSignBang" -> CommentLessThanSignBang(m, c)
      [] m.tokenization_state = "CommentLessThanSignBangDash" -> CommentLessThanSignBangDash(m, c)
      [] m.tokenization_state = "CommentLessThanSignBangDashDash" ->
            CommentLessThanSignBangDashDash(m, c)
      [] m.tokenization_state = "CommentEndDash" -> CommentEndDash(m, c)
      [] m.tokenization_state = "CommentEnd" -> CommentEnd(m, c)
      [] m.tokenization_state = "CommentEndBang" -> CommentEndBang(m, c)
      [] m.tokenization_state = "Doctype" -> Doctype(m, c)
      [] m.tokenization_state = "BeforeDoctypeName" -> BeforeDoctypeName(m, c)
      [] m.tokenization_state = "DoctypeName" -> DoctypeName(m, c)
      [] m.tokenization_state = "AfterDoctypeName" -> AfterDoctypeName(m, c)
      [] m.tokenization_state = "AfterDoctypePublicKeyword" -> AfterDoctypePublicKeyword(m, c)
      [] m.tokenization_state = "BeforeDoctypePublicIdentifier" ->
            BeforeDoctypePublicIdentifier(m, c)
      [] m.tokenization_state = "DoctypePublicIdentifierDoubleQuoted" ->
            DoctypePublicIdentifierDoubleQuoted(m, c)
      [] m.tokenization_state = "DoctypePublicIdentifierSingleQuoted" ->
            DoctypePublicIdentifierSingleQuoted(m, c)
      [] m.tokenization_state = "AfterDoctypePublicIdentifier" -> AfterDoctypePublicIdentifier(m, c)
      [] m.tokenization_state = "BetweenDoctypePublicAndSystemIdentifiers" ->
            BetweenDoctypePublicAndSystemIdentifiers(m, c)
      [] m.tokenization_state = "AfterDoctypeSystemKeyword" -> AfterDoctypeSystemKeyword(m, c)
      [] m.tokenization_state = "BeforeDoctypeSystemIdentifier" ->
            BeforeDoctypeSystemIdentifier(m, c)
      [] m.tokenization_state = "DoctypeSystemIdentifierDoubleQuoted" ->
            DoctypeSystemIdentifierDoubleQuoted(m, c)
      [] m.tokenization_state = "DoctypeSystemIdentifierSingleQuoted" ->
            DoctypeSystemIdentifierSingleQuoted(m, c)
      [] m.tokenization_state = "AfterDoctypeSystemIdentifier" -> AfterDoctypeSystemIdentifier(m, c)
      [] m.tokenization_state = "BogusDoctype" -> BogusDoctype(m, c)
      [] m.tokenization_state = "CharacterReference" -> CharacterReference(m, c)
      [] m.tokenization_state = "NamedCharacterReference" -> NamedCharacterReference(m, c)
      [] m.tokenization_state = "AmbiguousAmpersand" -> AmbiguousAmpersand(m, c)
      [] m.tokenization_state = "NumericCharacterReference" -> NumericCharacterReference(m, c)
      [] m.tokenization_state = "HexadecimalCharacterReferenceStart" ->
            HexadecimalCharacterReferenceStart(m, c)
      [] m.tokenization_state = "DecimalCharacterReferenceStart" ->
            DecimalCharacterReferenceStart(m, c)
      [] m.tokenization_state = "HexadecimalCharacterReference" ->
            HexadecimalCharacterReference(m, c)
      [] m.tokenization_state = "DecimalCharacterReference" -> DecimalCharacterReference(m, c)
      [] m.tokenization_state = "NumerticCharacterReferenceEnd" ->
            NumerticCharacterReferenceEnd(m, c)
      [] OTHER -> m

-----------------------------------------------------------------------------
(* Tokenizer::start *)

\* next_input_character(): the character at the cursor, and the cursor moves on
FetchNext(m) ==
    IF peek(m.position) = Panic
    THEN [m |-> Abort(m), character |-> None]
    ELSE [m |-> Advance(m), character |-> peek(m.position)]

\* current_input_character(), and the reconsume flag is cleared
FetchCurrent(m) ==
    IF previous(m.position) = Panic
    THEN [m |-> Abort(m), character |-> None]
    ELSE [m |-> [m EXCEPT !.reconsume_flag = FALSE], character |-> previous(m.position)]

\* one iteration of the `while next_input_character.is_some()` loop:
\* the machine and the next_input_character it ends with
Fetch(m, c) ==
    IF m.aborted THEN [m |-> m, character |-> c]
    ELSE IF m.reconsume_flag THEN FetchCurrent(m) ELSE FetchNext(m)

LoopBody(m, c) == Fetch(next_token(m, c), c)

\* the fields of the machine written back to the variables
Commit(m) ==
    /\ position' = m.position
    /\ tokenization_state' = m.tokenization_state
    /\ html_tokens' = m.html_tokens
    /\ reconsume_flag' = m.reconsume_flag
    /\ return_state' = m.return_state
    /\ temporary_buffer' = m.temporary_buffer
    /\ attribute_buffer' = m.attribute_buffer
    /\ character_reference_code' = m.character_reference_code
    /\ insertion_mode' = m.insertion_mode
    /\ nodes' = m.nodes
    /\ stack_of_open_elements' = m.stack_of_open_elements
    /\ head_element' = m.head_element
    /\ parse_errors' = m.parse_errors
    /\ received' = m.received

\* let mut next_input_character = self.next_input_character();
Start ==
    /\ pc = "start"
    /\ \E fetched \in {FetchNext(Machine)} :
           /\ Commit(fetched.m)
           /\ next_input_character' = fetched.character
           /\ pc' = IF fetched.m.aborted THEN "panicked" ELSE "loop"
    /\ UNCHANGED <<tokens, overflow_checks>>
    /\ UNCHANGED js_vars
    /\ UNCHANGED call_vars

LoopIteration ==
    /\ pc = "loop"
    /\ next_input_character # None
    /\ \E body \in {LoopBody(Machine, next_input_character)} :
           /\ Commit(body.m)
           /\ next_input_character' = body.character
           /\ pc' = IF body.m.aborted THEN "panicked" ELSE "loop"
    /\ UNCHANGED <<tokens, overflow_checks>>
    /\ UNCHANGED js_vars
    /\ UNCHANGED call_vars

\* if next_input_character.is_none() { self.next_token(None); }
EndOfFile ==
    /\ pc = "loop"
    /\ next_input_character = None
    /\ \E m1 \in {next_token(Machine, None)} :
           /\ Commit(m1)
           /\ pc' = IF m1.aborted THEN "panicked" ELSE "print"
    /\ UNCHANGED <<tokens, overflow_checks, next_input_character>>
    /\ UNCHANGED js_vars
    /\ UNCHANGED call_vars

\* self.html_document_parser.print_document(): the tree is printed, nothing is written
PrintDocument ==
    /\ pc = "print"
    /\ pc' = "returned"
    /\ UNCHANGED <<tokens, position, overflow_checks, tokenization_state, html_tokens,
                   reconsume_flag, return_state, temporary_buffer, attribute_buffer,
                   character_reference_code, insertion_mode, nodes, stack_of_open_elements,
                   head_element, parse_errors, received, next_input_character>>
    /\ UNCHANGED js_vars
    /\ UNCHANGED call_vars

-----------------------------------------------------------------------------
(* Inputs *)

MaxLen == 3

Alphabet == {"<", ">", "!", "-", "/", "&", ";", "=", " ", "a", "g", "t"}

\* <!DOCTYPE html><html><head></head></html>
DoctypeDocument == <<"<","!","D","O","C","T","Y","P","E"," ","h","t","m","l",">","<","h","t",
    "m","l",">","<","h","e","a","d",">","<","/","h","e","a","d",">","<","/","h","t","m","l",
    ">">>

\* <!DOCTYPE html><html><head> </head></html>
SpaceInHead == <<"<","!","D","O","C","T","Y","P","E"," ","h","t","m","l",">","<","h","t",
    "m","l",">","<","h","e","a","d",">"," ","<","/","h","e","a","d",">","<","/","h","t","m",
    "l",">">>

\* <a >a
TagThenSpace == <<"<","a"," ",">","a">>

\* <a g t>a
TwoBareAttributes == <<"<","a"," ","g"," ","t",">","a">>

\* <a g=t>a
UnquotedValueThenClose == <<"<","a"," ","g","=","t",">","a">>

\* <a g="t"><t >a
AttributeThenPlainTag == <<"<","a"," ","g","=","\"","t","\"",">","<","t"," ",">","a">>

\* <html>
HtmlWithoutDoctype == <<"<","h","t","m","l",">">>

\* <!-- hi -->
CommentDocument == <<"<","!","-","-"," ","h","i"," ","-","-",">">>

\* <!-xy
FailedLookAhead == <<"<","!","-","x","y">>

\* <!-x
FailedLookAheadAtEnd == <<"<","!","-","x">>

\* <!doxy
FailedDoctypeLookAhead == <<"<","!","d","o","x","y">>

\* &amp
AmpAtEnd == <<"&","a","m","p">>

\* &ampx
AmpThenLetter == <<"&","a","m","p","x">>

\* a&amp b
AmpInText == <<"a","&","a","m","p"," ","b">>

\* &amp;
AmpSemicolonAtEnd == <<"&","a","m","p",";">>

\* &amp;x
AmpSemicolonThenLetter == <<"&","a","m","p",";","x">>

\* <a b b="1">
RepeatedBareAttribute == <<"<","a"," ","b"," ","b","=","\"","1","\"",">">>

\* <a b="1" b="2">
RepeatedQuotedAttribute == <<"<","a"," ","b","=","\"","1","\""," ","b","=","\"","2","\"",">">>

\* <a b=1 b=2>
RepeatedUnquotedAttribute == <<"<","a"," ","b","=","1"," ","b","=","2",">">>

\* <a b="1"/>
QuotedAttributeSelfClosing == <<"<","a"," ","b","=","\"","1","\"","/",">">>

\* <a b="&amp">
AmpInAttribute == <<"<","a"," ","b","=","\"","&","a","m","p","\"",">">>

\* &#x41;a
HexReferenceThenLetter == <<"&","#","x","4","1",";","a">>

\* &#x41;
HexReference == <<"&","#","x","4","1",";">>

\* &#65;
DecimalReference == <<"&","#","6","5",";">>

\* &notin;
NotinReference == <<"&","n","o","t","i","n",";">>

\* &lt;a
LtReferenceThenLetter == <<"&","l","t",";","a">>

\* <!DOCTYPE html
DoctypeHtmlAtEnd == <<"<","!","D","O","C","T","Y","P","E"," ","h","t","m","l">>

\* <!DOCTYPE html and a space
DoctypeHtmlSpaceAtEnd == <<"<","!","D","O","C","T","Y","P","E"," ","h","t","m","l"," ">>

\* <!DOCTYPE and a space
DoctypeAtEnd == <<"<","!","D","O","C","T","Y","P","E"," ">>

\* <!DOCTYPE a>
DoctypeOtherName == <<"<","!","D","O","C","T","Y","P","E"," ","a",">">>

\* <!DOCTYPE a c>
DoctypeNameThenC == <<"<","!","D","O","C","T","Y","P","E"," ","a"," ","c",">">>

\* <!DOCTYPE a public "x">
DoctypeNameThenPublic == <<"<","!","D","O","C","T","Y","P","E"," ","a"," ","p","u","b","l","i","c",
    " ","\"","x","\"",">">>

Scenarios ==
    {DoctypeDocument,
     CommentDocument,
     FailedLookAhead,
     FailedLookAheadAtEnd,
     FailedDoctypeLookAhead,
     AmpAtEnd,
     AmpThenLetter,
     AmpInText,
     AmpSemicolonAtEnd,
     AmpSemicolonThenLetter,
     RepeatedBareAttribute,
     RepeatedQuotedAttribute,
     RepeatedUnquotedAttribute,
     QuotedAttributeSelfClosing,
     AmpInAttribute,
     HexReferenceThenLetter,
     HexReference,
     DecimalReference,
     NotinReference,
     LtReferenceThenLetter,
     DoctypeNameThenC,
     DoctypeNameThenPublic,
     DoctypeHtmlAtEnd,
     DoctypeHtmlSpaceAtEnd,
     DoctypeAtEnd,
     DoctypeOtherName,
     SpaceInHead,
     TagThenSpace,
     TwoBareAttributes,
     UnquotedValueThenClose,
     AttributeThenPlainTag,
     HtmlWithoutDoctype}

\* every input over Alphabet of at most MaxLen characters, and the documents above
Inputs == UNION {[1..n -> Alphabet] : n \in 0..MaxLen} \cup Scenarios

\* Tokenizer::new(source) and HTMLDocumentParser::new()
Init ==
    /\ tokens \in Inputs
    /\ overflow_checks \in BOOLEAN
    /\ position = 0
    /\ tokenization_state = "Data"
    /\ html_tokens = <<>>
    /\ reconsume_flag = FALSE
    /\ return_state = "Data"
    /\ temporary_buffer = Str0
    /\ attribute_buffer = [name |-> Str0, value |-> Str0]
    /\ character_reference_code = U32(0)
    /\ insertion_mode = "Initial"
    /\ nodes = InitialNodes
    /\ stack_of_open_elements = InitialStack
    /\ head_element = NoNode
    /\ parse_errors = <<>>
    /\ received = <<>>
    /\ next_input_character = None
    /\ pc = "start"
    /\ NoInterpreter

Next == Start \/ LoopIteration \/ EndOfFile \/ PrintDocument

Spec == Init /\ [][Next]_vars

\* ---------------------------------------------------------------------------
\* Properties
\* ---------------------------------------------------------------------------

Range(s) == {s[i] : i \in DOMAIN s}

RECURSIVE CharacterData(_)
\* the data of the Character tokens of a token sequence, in order
CharacterData(toks) ==
    IF toks = <<>> THEN <<>>
    ELSE IF Head(toks).token_type = "Character"
         THEN Head(toks).data \o CharacterData(Tail(toks))
         ELSE CharacterData(Tail(toks))

Finished == pc \in {"print", "returned"}

\* C1: Tokenizer::start makes progress: no loop iteration leaves the whole
\* tokenizer (cursor, state, buffers, tokens) and the dispatched character
\* exactly as it found them, which would dispatch the same character to the
\* same state forever.
C1_NoJammedDispatch ==
    (pc = "loop" /\ next_input_character # None)
        => LoopBody(Machine, next_input_character)
               # [m |-> Machine, character |-> next_input_character]

\* C2: tokenization is never aborted by a panic (failed unwrap, overflow, todo!).
C2_NeverAborted == pc # "panicked"

\* C3: once start has returned, the tokens handed to parse_html_token are
\* exactly the retained html_tokens, in the same order.
C3_ReceivedEqualsRetained == (pc = "returned") => (received = html_tokens)

\* C4: the empty input is tokenized without abort into exactly one token, the
\* EndOfFile token.
C4_EmptyInputOneEndOfFile ==
    (tokens = <<>>) =>
        /\ pc # "panicked"
        /\ Finished => html_tokens = <<create_end_of_file_html_token>>

C4_Witness == tokens = <<>> /\ pc = "returned" /\ Len(html_tokens) = 1

\* an input that is text only: no character reference, and every "<" is
\* followed by a character that opens neither a tag, a markup declaration nor
\* a bogus comment
IsPlainText(input) ==
    /\ \A i \in DOMAIN input : input[i] \notin {"&", NUL}
    /\ \A i \in DOMAIN input :
           input[i] = "<" =>
               /\ i < Len(input)
               /\ input[i + 1] \notin AsciiAlpha \cup {"!", "/", "?"}

\* C5: the Character tokens account for every character of a text run once
\* and in order, the last character of the input included: for an input that
\* is text only, their data concatenated is the input.
C5_TokenContiguity ==
    (pc = "returned" /\ IsPlainText(tokens)) => CharacterData(html_tokens) = tokens

\* the value the first occurrence of attribute b carries in each input that
\* repeats it
FirstValueOfB ==
    [input \in {RepeatedBareAttribute, RepeatedQuotedAttribute, RepeatedUnquotedAttribute} |->
        IF input = RepeatedBareAttribute THEN Str0 ELSE <<"1">>]

\* C6: a tag that repeats an attribute name keeps the first occurrence's
\* value, drops the later one and raises DuplicateAttribute.
C6_FirstAttributeKept ==
    (pc = "returned" /\ tokens \in DOMAIN FirstValueOfB) =>
        /\ Len(html_tokens) >= 1
        /\ html_tokens[1].token_type = "StartTag"
        /\ DOMAIN html_tokens[1].attributes = {<<"b">>}
        /\ html_tokens[1].attributes[<<"b">>] = FirstValueOfB[tokens]
        /\ "DuplicateAttribute" \in Range(parse_errors)

ChildrenOf(n) == [i \in DOMAIN nodes[n].childNodes |-> nodes[nodes[n].childNodes[i]]]

\* C7: <!DOCTYPE html><html><head></head></html> is processed without abort
\* and without parse error; the document's children are exactly a
\* DocumentType (name html, empty public and system identifiers) followed by
\* the Element html, whose only child is the Element head.
C7_DoctypeDocumentTree ==
    (tokens = DoctypeDocument) =>
        /\ pc # "panicked"
        /\ Finished =>
            /\ parse_errors = <<>>
            /\ Len(nodes[document].childNodes) = 2
            /\ ChildrenOf(document)[1].nodeType = DOCUMENT_TYPE_NODE
            /\ ChildrenOf(document)[1].data = DocumentTypeData(html_name, Str0, Str0)
            /\ ChildrenOf(document)[2].nodeType = ELEMENT_NODE
            /\ ChildrenOf(document)[2].data = ElementData(html_name)
            /\ Len(ChildrenOf(document)[2].childNodes) = 1
            /\ ChildrenOf(nodes[document].childNodes[2])[1].nodeType = ELEMENT_NODE
            /\ ChildrenOf(nodes[document].childNodes[2])[1].data = ElementData(head_name)

C7_Witness ==
    /\ tokens = DoctypeDocument
    /\ pc = "returned"
    /\ Len(nodes[document].childNodes) = 2
    /\ head_element # NoNode

\* C8: after <!-- hi --> the document has a Comment child carrying the comment
\* text, and the insertion mode has left Initial for BeforeHtml.
C8_CommentThenBeforeHtml ==
    (tokens = CommentDocument /\ pc = "returned") =>
        /\ \E i \in DOMAIN nodes[document].childNodes :
               /\ ChildrenOf(document)[i].nodeType = COMMENT_NODE
               /\ ChildrenOf(document)[i].data = CommentData(<<" ", "h", "i", " ">>)
        /\ insertion_mode = "BeforeHtml"

\* the nodes the parser creates for the tree: every node but the document
\* root (and the temporary document the constructor drops)
TreeNodes == DOMAIN nodes \ {dropped_document, document}

\* C9: every node other than the document root has parent_node set to a
\* reference that upgrades and designates the node whose child_nodes holds it.
C9_ParentDesignatesHolder ==
    \A n \in TreeNodes :
        /\ nodes[n].parentNode # NoNode
        /\ nodes[nodes[n].parentNode].alive
        /\ n \in Range(nodes[nodes[n].parentNode].childNodes)

\* the text each input holding &amp without its semicolon stands for
AmpWithoutSemicolonText ==
    [input \in {AmpAtEnd, AmpThenLetter, AmpInText} |->
        CASE input = AmpAtEnd -> <<"&">>
          [] input = AmpThenLetter -> <<"&", "x">>
          [] OTHER -> <<"a", "&", " ", "b">>]

\* C10: &amp without its semicolon, in text, is tokenized without abort as one
\* Character token carrying "&" among the text around it, and
\* MissingSemicolonAfterCharacterReference is raised, at the end of the input
\* included.
C10_AmpWithoutSemicolon ==
    (tokens \in DOMAIN AmpWithoutSemicolonText) =>
        /\ pc # "panicked"
        /\ (pc = "returned") =>
            /\ CharacterData(html_tokens) = AmpWithoutSemicolonText[tokens]
            /\ "MissingSemicolonAfterCharacterReference" \in Range(parse_errors)

\* the text each input holding a named reference closed by its semicolon
\* stands for
NamedReferenceText ==
    [input \in {AmpSemicolonAtEnd, AmpSemicolonThenLetter, LtReferenceThenLetter} |->
        CASE input = AmpSemicolonAtEnd -> <<"&">>
          [] input = AmpSemicolonThenLetter -> <<"&", "x">>
          [] OTHER -> <<"<", "a">>]

\* C11: a named character reference in text that ends with its semicolon is
\* tokenized without abort as the Character token of its replacement and
\* raises no parse error, whatever follows the semicolon (a character or the
\* end of the input).
C11_NamedReferenceWithSemicolon ==
    (tokens \in DOMAIN NamedReferenceText) =>
        /\ pc # "panicked"
        /\ (pc = "returned") =>
            /\ CharacterData(html_tokens) = NamedReferenceText[tokens]
            /\ parse_errors = <<>>

\* C12: a numeric character reference to the ordinary scalar value 0x41
\* (&#x41; or &#65;) yields first the Character token "A", the only Character
\* token when nothing follows the reference.
C12_NumericReferenceCharacter ==
    (tokens \in {HexReference, DecimalReference, HexReferenceThenLetter} /\ pc = "returned") =>
        /\ Len(html_tokens) >= 1
        /\ html_tokens[1] = create_character_html_token("A")
        /\ (tokens # HexReferenceThenLetter => CharacterData(html_tokens) = <<"A">>)

\* ---------------------------------------------------------------------------
\* The JavaScript pipeline: Scanner (src/src/scanner.rs), Parser
\* (src/src/parser.rs) and Interpreter (src/src/interpreter.rs).
\*
\* The source text is ASCII, so byte offsets and character indices agree.  A
\* Number is modelled by an integer: the sources considered hold no fractional
\* literal and no division.  A panic ends the process with exit code 101.
\* ---------------------------------------------------------------------------

(* JS values *)
\* A JSValue is [type, number, string, boolean]: the payload of a Numeric,
\* String or Boolean is in the field of its kind, the other fields are idle.

JSValue(type, number, string, boolean) ==
    [type |-> type, number |-> number, string |-> string, boolean |-> boolean]

Undefined == JSValue("Undefined", 0, <<>>, FALSE)

Null == JSValue("Null", 0, <<>>, FALSE)

Boolean(b) == JSValue("Boolean", 0, <<>>, b)

Numeric(n) == JSValue("Numeric", n, <<>>, FALSE)

String(s) == JSValue("String", 0, s, FALSE)

\* JSValue::Object(JSObject { values: HashMap::new(), .. }): what every throw carries
ErrorObject == JSValue("Object", 0, <<>>, FALSE)

\* the value of a conversion that panicked
PanicValue == JSValue(Panic, 0, <<>>, FALSE)

\* a quotient that is no integer
Fraction == JSValue("Fraction", 0, <<>>, FALSE)

(* Scanner *)

Digits == {"0", "1", "2", "3", "4", "5", "6", "7", "8", "9"}

DigitValue ==
    ("0" :> 0) @@ ("1" :> 1) @@ ("2" :> 2) @@ ("3" :> 3) @@ ("4" :> 4) @@
    ("5" :> 5) @@ ("6" :> 6) @@ ("7" :> 7) @@ ("8" :> 8) @@ ("9" :> 9)

is_digit(c) == c \in Digits

is_alpha(c) ==
    c \in {"a", "b", "c", "d", "e", "f", "g", "h", "i", "j", "k", "l", "m",
           "n", "o", "p", "q", "r", "s", "t", "u", "v", "w", "x", "y", "z",
           "A", "B", "C", "D", "E", "F", "G", "H", "I", "J", "K", "L", "M",
           "N", "O", "P", "Q", "R", "S", "T", "U", "V", "W", "X", "Y", "Z", "_"}

is_alpha_numeric(c) == is_alpha(c) \/ is_digit(c)

reserved_keywords ==
    (<<"a", "w", "a", "i", "t">> :> "AWAIT")
    @@ (<<"b", "r", "e", "a", "k">> :> "BREAK")
    @@ (<<"c", "a", "s", "e">> :> "CASE")
    @@ (<<"c", "a", "t", "c", "h">> :> "CATCH")
    @@ (<<"c", "l", "a", "s", "s">> :> "CLASS")
    @@ (<<"c", "o", "n", "s", "t">> :> "CONST")
    @@ (<<"c", "o", "n", "t", "i", "n", "u", "e">> :> "CONTINUE")
    @@ (<<"d", "e", "b", "u", "g", "g", "e", "r">> :> "DEBUGGER")
    @@ (<<"d", "e", "f", "a", "u", "l", "t">> :> "DEFAULT")
    @@ (<<"d", "e", "l", "e", "t", "e">> :> "DELETE")
    @@ (<<"d", "o">> :> "DO")
    @@ (<<"e", "l", "s", "e">> :> "ELSE")
    @@ (<<"e", "n", "u", "m">> :> "ENUM")
    @@ (<<"e", "x", "p", "o", "r", "t">> :> "EXPORT")
    @@ (<<"e", "x", "t", "e", "n", "d", "s">> :> "EXTENDS")
    @@ (<<"f", "a", "l", "s", "e">> :> "FALSE")
    @@ (<<"f", "i", "n", "a", "l", "l", "y">> :> "FINALLY")
    @@ (<<"f", "o", "r">> :> "FOR")
    @@ (<<"f", "u", "n", "c", "t", "i", "o", "n">> :> "FUNCTION")
    @@ (<<"i", "f">> :> "IF")
    @@ (<<"i", "m", "p", "o", "r", "t">> :> "IMPORT")
    @@ (<<"i", "n">> :> "IN")
    @@ (<<"i", "n", "s", "t", "a", "n", "c", "e", "o", "f">> :> "INSTANCEOF")
    @@ (<<"n", "e", "w">> :> "NEW")
    @@ (<<"n", "u", "l", "l">> :> "NULL")
    @@ (<<"r", "e", "t", "u", "r", "n">> :> "RETURN")
    @@ (<<"s", "u", "p", "e", "r">> :> "SUPER")
    @@ (<<"s", "w", "i", "t", "c", "h">> :> "SWITCH")
    @@ (<<"t", "h", "i", "s">> :> "THIS")
    @@ (<<"t", "h", "r", "o", "w">> :> "THROW")
    @@ (<<"t", "r", "u", "e">> :> "TRUE")
    @@ (<<"t", "r", "y">> :> "TRY")
    @@ (<<"t", "y", "p", "e", "o", "f">> :> "TYPEOF")
    @@ (<<"v", "a", "r">> :> "VAR")
    @@ (<<"v", "o", "i", "d">> :> "VOID")
    @@ (<<"w", "h", "i", "l", "e">> :> "WHILE")
    @@ (<<"w", "i", "t", "h">> :> "WITH")
    @@ (<<"y", "i", "e", "l", "d">> :> "YIELD")

\* Scanner::new(source)
NewScanner == [start |-> 0, current |-> 0, line |-> 0, tokens |-> <<>>, reported |-> <<>>]

\* Token::new(token_type, lexeme, literal, line): the Option literal is a sequence of at most one Literal
Token(token_type, lexeme, literal, line) ==
    [token_type |-> token_type, lexeme |-> lexeme, literal |-> literal, line |-> line]

scanner_is_at_end(src, sc) == sc.current >= Len(src)

scanner_peek(src, sc) == IF scanner_is_at_end(src, sc) THEN NUL ELSE src[sc.current + 1]

scanner_advance(sc) == [sc EXCEPT !.current = sc.current + 1]

add_token(src, sc, token_type, literal) ==
    [sc EXCEPT !.tokens = Append(sc.tokens,
        Token(token_type, SubSeq(src, sc.start + 1, sc.current), literal, sc.line))]

\* a line the pipeline prints: who printed it, the message, and the text it names
Diagnostic(from, message, text) == [from |-> from, message |-> message, text |-> text]

\* Scanner::error only prints
scanner_error(sc, message, text) ==
    [sc EXCEPT !.reported = Append(sc.reported, Diagnostic("Scanner", message, text))]

\* match_token(expected), then the token for whichever case held
one_or_two(src, sc, expected, matched, unmatched) ==
    IF scanner_is_at_end(src, sc) \/ src[sc.current + 1] # expected
    THEN add_token(src, sc, unmatched, <<>>)
    ELSE add_token(src, scanner_advance(sc), matched, <<>>)

RECURSIVE skip_comment(_, _)
\* while self.peek() != '\n' && !self.is_at_end() { self.advance(); }
skip_comment(src, sc) ==
    IF scanner_peek(src, sc) # "\n" /\ ~scanner_is_at_end(src, sc)
    THEN skip_comment(src, scanner_advance(sc))
    ELSE sc

RECURSIVE string_body(_, _)
\* the loop of Scanner::string
string_body(src, sc) ==
    IF scanner_peek(src, sc) # "\"" /\ ~scanner_is_at_end(src, sc)
    THEN string_body(src, scanner_advance(
             IF scanner_peek(src, sc) = "\n" THEN [sc EXCEPT !.line = sc.line + 1] ELSE sc))
    ELSE sc

string_close(src, sc) ==
    IF scanner_is_at_end(src, sc)
    THEN scanner_error(sc, "Unterminated string.", "")
    ELSE add_token(src, scanner_advance(sc), "STRING",
             <<String(SubSeq(src, sc.start + 2, sc.current))>>)

string(src, sc) == string_close(src, string_body(src, sc))

RECURSIVE skip_digits(_, _)
skip_digits(src, sc) ==
    IF is_digit(scanner_peek(src, sc)) THEN skip_digits(src, scanner_advance(sc)) ELSE sc

RECURSIVE parse_f64(_)
\* str::parse::<f64> of a run of decimal digits
parse_f64(digits) ==
    IF digits = <<>> THEN 0
    ELSE 10 * parse_f64(SubSeq(digits, 1, Len(digits) - 1)) + DigitValue[digits[Len(digits)]]

\* Scanner::peek_next
scanner_peek_next(src, sc) == IF sc.current + 1 >= Len(src) THEN NUL ELSE src[sc.current + 2]

\* if self.peek() == '.' && self.is_digit(self.peek_next()) { advance past the '.' and the digits }
skip_fraction(src, sc) ==
    IF scanner_peek(src, sc) = "." /\ is_digit(scanner_peek_next(src, sc))
    THEN skip_digits(src, scanner_advance(sc))
    ELSE sc

\* where the '.' of a number's text is, 0 when it has none
dot_index(text) ==
    IF "." \in Range(text) THEN CHOOSE i \in DOMAIN text : text[i] = "." ELSE 0

\* the f64 of a number's text: an integer, or its integer part with the digits of
\* its fraction kept in `string` (arithmetic is modelled on integers only)
number_literal(text) ==
    IF dot_index(text) = 0 THEN Numeric(parse_f64(text))
    ELSE JSValue("Numeric", parse_f64(SubSeq(text, 1, dot_index(text) - 1)),
                 SubSeq(text, dot_index(text) + 1, Len(text)), FALSE)

number_token(src, sc) ==
    add_token(src, sc, "NUMBER", <<number_literal(SubSeq(src, sc.start + 1, sc.current))>>)

number(src, sc) == number_token(src, skip_fraction(src, skip_digits(src, sc)))

RECURSIVE skip_alpha_numeric(_, _)
skip_alpha_numeric(src, sc) ==
    IF is_alpha_numeric(scanner_peek(src, sc))
    THEN skip_alpha_numeric(src, scanner_advance(sc))
    ELSE sc

identifier_token(src, sc, text) ==
    add_token(src, sc,
        IF text \in DOMAIN reserved_keywords THEN reserved_keywords[text] ELSE "IDENTIFIER", <<>>)

identifier(src, sc) ==
    identifier_token(src, skip_alpha_numeric(src, sc),
        SubSeq(src, sc.start + 1, skip_alpha_numeric(src, sc).current))

\* Scanner::scan_token after `let c = &self.advance()`
scan_character(src, sc, c) ==
    CASE c = "(" -> add_token(src, sc, "LeftParen", <<>>)
      [] c = ")" -> add_token(src, sc, "RIGHT_PAREN", <<>>)
      [] c = "{" -> add_token(src, sc, "LEFT_BRACE", <<>>)
      [] c = "}" -> add_token(src, sc, "RIGHT_BRACE", <<>>)
      [] c = "," -> add_token(src, sc, "COMMA", <<>>)
      [] c = "." -> add_token(src, sc, "DOT", <<>>)
      [] c = "-" -> add_token(src, sc, "MINUS", <<>>)
      [] c = "+" -> add_token(src, sc, "PLUS", <<>>)
      [] c = ";" -> add_token(src, sc, "SEMICOLON", <<>>)
      [] c = "*" -> add_token(src, sc, "STAR", <<>>)
      [] c = "~" -> add_token(src, sc, "BITWISE_NOT", <<>>)
      [] c = ":" -> add_token(src, sc, "COLON", <<>>)
      [] c = "!" -> one_or_two(src, sc, "=", "BANG_EQUAL", "BANG")
      [] c = "=" -> one_or_two(src, sc, "=", "EQUAL_EQUAL", "EQUAL")
      [] c = "<" -> one_or_two(src, sc, "=", "LESS_EQUAL", "LESS")
      [] c = ">" -> one_or_two(src, sc, "=", "GREATER_EQUAL", "GREATER")
      [] c = "/" -> IF ~scanner_is_at_end(src, sc) /\ src[sc.current + 1] = "/"
                    THEN skip_comment(src, scanner_advance(sc))
                    ELSE add_token(src, sc, "SLASH", <<>>)
      [] c \in {" ", "\r", "\t"} -> sc
      [] c = "\n" -> [sc EXCEPT !.line = sc.line + 1]
      [] c = "\"" -> string(src, sc)
      [] OTHER -> IF is_digit(c) THEN number(src, sc)
                  ELSE IF is_alpha_numeric(c) THEN identifier(src, sc)
                  ELSE scanner_error(sc, "Unexpected character: ", c)

\* scan_token without its leading `let c = self.advance();`
scan_token_without_advance(src, sc) == scan_character(src, sc, src[sc.current + 1])

scan_token(src, sc) == scan_character(src, scanner_advance(sc), src[sc.current + 1])

RECURSIVE scan_loop(_, _)
\* while !self.is_at_end() { self.start = self.current; self.scan_token(); }
scan_loop(src, sc) ==
    IF scanner_is_at_end(src, sc) THEN sc
    ELSE scan_loop(src, scan_token(src, [sc EXCEPT !.start = sc.current]))

push_eof(sc) == [sc EXCEPT !.tokens = Append(sc.tokens, Token("EOF", <<>>, <<>>, sc.line))]

scan_tokens(src) == push_eof(scan_loop(src, NewScanner))

(* Parser *)
\* The Parser is [current, reported, aborted, hung]: `aborted` after a panic,
\* `hung` once a loop has been seen to repeat without consuming a token.  An
\* aborted parser matches nothing, so the descent unwinds.

\* Parser::new(tokens)
NewParser == [current |-> 0, reported |-> <<>>, aborted |-> FALSE, hung |-> FALSE]

parser_peek(toks, p) == toks[p.current + 1]

parser_previous(toks, p) == toks[p.current]

parser_is_at_end(toks, p) == parser_peek(toks, p).token_type = "EOF"

parser_check(toks, p, token_type) ==
    /\ ~p.aborted /\ ~p.hung
    /\ ~parser_is_at_end(toks, p)
    /\ parser_peek(toks, p).token_type = token_type

\* match_token(vec![...]): some listed type is the type of the next token
parser_match(toks, p, token_types) ==
    /\ ~p.aborted /\ ~p.hung
    /\ ~parser_is_at_end(toks, p)
    /\ parser_peek(toks, p).token_type \in token_types

parser_advance(toks, p) ==
    IF parser_is_at_end(toks, p) THEN p ELSE [p EXCEPT !.current = p.current + 1]

parser_report(p, message) ==
    IF p.aborted \/ p.hung THEN p
    ELSE [p EXCEPT !.reported = Append(p.reported, Diagnostic("Parser", message, ""))]

parser_panic(p) == [p EXCEPT !.aborted = TRUE]

\* Parser::consume: the parser after it; the token it returns is parser_peek before it
consume(toks, p, token_type, message) ==
    IF parser_check(toks, p, token_type) THEN parser_advance(toks, p)
    ELSE parser_report(p, message)

LiteralExpression(value) == [node |-> "LiteralExpression", value |-> value]

Parsed(expr, p) == [expression |-> expr, parser |-> p]

RECURSIVE assignment_expression(_, _)
RECURSIVE equality_loop(_, _)
RECURSIVE comparison_loop(_, _)
RECURSIVE term_loop(_, _)
RECURSIVE factor_loop(_, _)
RECURSIVE unary(_, _)
RECURSIVE call_loop(_, _)
RECURSIVE arguments_loop(_, _)
RECURSIVE property_loop(_, _)
RECURSIVE declaration(_, _)
RECURSIVE block_loop(_, _)

expression(toks, p) == assignment_expression(toks, p)

\* the CallExpression built once the arguments are parsed
finish_call_make(toks, callee, args) ==
    Parsed([node |-> "CallExpression", callee |-> callee, arguments |-> args.arguments],
           consume(toks, args.parser, "RIGHT_PAREN", "Expect ')' after arguments."))

arguments_first(r) == [arguments |-> <<r.expression>>, parser |-> r.parser]

arguments_push(toks, args, r) ==
    IF parser_check(toks, r.parser, "RIGHT_PAREN")
    THEN [arguments |-> Append(args.arguments, r.expression), parser |-> r.parser]
    ELSE arguments_loop(toks, [arguments |-> Append(args.arguments, r.expression), parser |-> r.parser])

\* while self.match_token(vec![COMMA]) { arguments.push(self.expression()); if check(RIGHT_PAREN) { break } }
arguments_loop(toks, args) ==
    IF parser_check(toks, args.parser, "COMMA")
    THEN arguments_push(toks, args, expression(toks, parser_advance(toks, args.parser)))
    ELSE args

finish_call(toks, p, callee) ==
    finish_call_make(toks, callee, arguments_loop(toks, arguments_first(expression(toks, p))))

PropertyDefinition(prop_name, r) ==
    [definition |-> <<[property_name |-> prop_name,
                       assignment_expression |->
                           [node |-> "AssignmentExpression",
                            left_hand_side_expression |->
                                [node |-> "IdentifierExpression", binding_identifier |-> prop_name],
                            expression |-> r.expression]]>>,
     parser |-> r.parser]

\* create_property_definition once the property name has been matched
property_definition_named(toks, p, prop_name) ==
    IF prop_name.token_type = "IDENTIFIER" \/ prop_name.token_type = "STRING"
    THEN PropertyDefinition(prop_name, expression(toks, p))
    ELSE [definition |-> <<>>, parser |-> parser_panic(p)]

create_property_definition(toks, p) ==
    IF parser_match(toks, p, {"IDENTIFIER", "NUMBER", "STRING"})
    THEN property_definition_named(toks,
             consume(toks, parser_advance(toks, p), "COLON",
                     "Uncaught SyntaxError: missing : after property id"),
             parser_peek(toks, p))
    ELSE [definition |-> <<>>, parser |-> p]

property_push(toks, list, d) ==
    IF d.definition = <<>>
    THEN [property_definitions |-> list.property_definitions, parser |-> parser_panic(d.parser)]
    ELSE IF parser_check(toks, d.parser, "RIGHT_BRACE")
    THEN [property_definitions |-> list.property_definitions \o d.definition, parser |-> d.parser]
    ELSE property_loop(toks,
             [property_definitions |-> list.property_definitions \o d.definition, parser |-> d.parser])

\* while self.match_token(vec![COMMA]) { list.push(create_property_definition().unwrap()); if check(RIGHT_BRACE) { break } }
property_loop(toks, list) ==
    IF parser_check(toks, list.parser, "COMMA")
    THEN property_push(toks, list, create_property_definition(toks, parser_advance(toks, list.parser)))
    ELSE list

object_literal_make(toks, list) ==
    Parsed([node |-> "ObjectLiteralExpression", property_definitions |-> list.property_definitions],
           consume(toks, list.parser, "RIGHT_BRACE", "Expect '}' after expression."))

object_literal(toks, d) ==
    IF d.definition = <<>>
    THEN object_literal_make(toks, [property_definitions |-> <<>>, parser |-> d.parser])
    ELSE object_literal_make(toks,
             property_loop(toks, [property_definitions |-> d.definition, parser |-> d.parser]))

parenthesized(toks, r) ==
    Parsed([node |-> "ParenthesizedExpression", expression |-> r.expression],
           consume(toks, r.parser, "RIGHT_PAREN", "Expect ')' after expression."))

primary(toks, p) ==
    CASE parser_check(toks, p, "FALSE") ->
            Parsed(LiteralExpression(Boolean(FALSE)), parser_advance(toks, p))
      [] parser_check(toks, p, "TRUE") ->
            Parsed(LiteralExpression(Boolean(TRUE)), parser_advance(toks, p))
      [] parser_check(toks, p, "NULL") ->
            Parsed(LiteralExpression(Null), parser_advance(toks, p))
      [] parser_match(toks, p, {"NUMBER", "STRING"}) ->
            Parsed(LiteralExpression(parser_peek(toks, p).literal[1]), parser_advance(toks, p))
      [] parser_check(toks, p, "IDENTIFIER") ->
            Parsed([node |-> "IdentifierExpression", binding_identifier |-> parser_peek(toks, p)],
                   parser_advance(toks, p))
      [] parser_check(toks, p, "LEFT_BRACE") ->
            object_literal(toks, create_property_definition(toks, parser_advance(toks, p)))
      [] parser_check(toks, p, "LeftParen") ->
            parenthesized(toks, expression(toks, parser_advance(toks, p)))
      [] OTHER -> Parsed(LiteralExpression(Null), p)

call_loop(toks, r) ==
    IF parser_check(toks, r.parser, "LeftParen")
    THEN call_loop(toks, finish_call(toks, parser_advance(toks, r.parser), r.expression))
    ELSE r

call_expression(toks, p) == call_loop(toks, primary(toks, p))

unary_make(operator, r) ==
    Parsed([node |-> "UnaryExpression", operator |-> operator, right |-> r.expression], r.parser)

unary(toks, p) ==
    IF parser_match(toks, p, {"BANG", "MINUS", "PLUS"})
    THEN unary_make(parser_peek(toks, p), unary(toks, parser_advance(toks, p)))
    ELSE call_expression(toks, p)

binary_make(left, operator, r) ==
    Parsed([node |-> "BinaryExpression", left |-> left, right |-> r.expression, operator |-> operator],
           r.parser)

factor_loop(toks, r) ==
    IF parser_match(toks, r.parser, {"SLASH", "STAR"})
    THEN factor_loop(toks, binary_make(r.expression, parser_peek(toks, r.parser),
                                       unary(toks, parser_advance(toks, r.parser))))
    ELSE r

\* factor without its loop: `*` and `/` are not parsed at their own level
factor_without_loop(toks, p) == unary(toks, p)

factor(toks, p) == factor_loop(toks, unary(toks, p))

term_loop(toks, r) ==
    IF parser_match(toks, r.parser, {"MINUS", "PLUS"})
    THEN term_loop(toks, binary_make(r.expression, parser_peek(toks, r.parser),
                                     factor(toks, parser_advance(toks, r.parser))))
    ELSE r

term(toks, p) == term_loop(toks, factor(toks, p))

comparison_loop(toks, r) ==
    IF parser_match(toks, r.parser, {"GREATER", "GREATER_EQUAL", "LESS", "LESS_EQUAL"})
    THEN comparison_loop(toks, binary_make(r.expression, parser_peek(toks, r.parser),
                                           term(toks, parser_advance(toks, r.parser))))
    ELSE r

comparison(toks, p) == comparison_loop(toks, term(toks, p))

equality_loop(toks, r) ==
    IF parser_match(toks, r.parser, {"BANG_EQUAL", "EQUAL_EQUAL"})
    THEN equality_loop(toks, binary_make(r.expression, parser_peek(toks, r.parser),
                                         comparison(toks, parser_advance(toks, r.parser))))
    ELSE r

equality(toks, p) == equality_loop(toks, comparison(toks, p))

AssignmentExpression(left_hand_side_expression, r) ==
    Parsed([node |-> "AssignmentExpression",
            left_hand_side_expression |-> left_hand_side_expression,
            expression |-> r.expression],
           r.parser)

assignment_target(toks, r) ==
    IF ~parser_check(toks, r.parser, "EQUAL") THEN r
    ELSE IF r.expression.node = "IdentifierExpression"
    THEN AssignmentExpression(r.expression,
             assignment_expression(toks, parser_advance(toks, r.parser)))
    ELSE Parsed(r.expression,
             parser_report(parser_advance(toks, r.parser), "Invalid assignment target."))

assignment_expression(toks, p) == assignment_target(toks, equality(toks, p))

ParsedStatement(statement, p) == [statement |-> statement, parser |-> p]

expression_statement_make(r) ==
    ParsedStatement([node |-> "ExpressionStatement", expression |-> r.expression], r.parser)

expression_statement(toks, p) == expression_statement_make(expression(toks, p))

var_initializer(name, r) ==
    ParsedStatement(
        [node |-> "VariableStatement", binding_identifier |-> name,
         initializer |-> <<[node |-> "AssignmentExpression",
                            left_hand_side_expression |->
                                [node |-> "IdentifierExpression", binding_identifier |-> name],
                            expression |-> r.expression]>>],
        r.parser)

\* var_declaration once the name has been consumed
var_declaration_named(toks, p, name) ==
    IF parser_check(toks, p, "EQUAL")
    THEN var_initializer(name, expression(toks, parser_advance(toks, p)))
    ELSE ParsedStatement(
             [node |-> "VariableStatement", binding_identifier |-> name, initializer |-> <<>>], p)

var_declaration(toks, p) ==
    var_declaration_named(toks, consume(toks, p, "IDENTIFIER", "missing variable name"),
                          parser_peek(toks, p))

block_statement_make(toks, list) ==
    ParsedStatement([node |-> "BlockStatement", statements |-> list.statements],
        consume(toks,
                IF ~list.parser.aborted /\ ~list.parser.hung /\ parser_peek(toks, list.parser).token_type = "SEMICOLON"
                THEN parser_advance(toks, list.parser) ELSE list.parser,
                "RIGHT_BRACE", "Expect '}' after block."))

\* one turn of a loop that pushes declaration(): it hangs if the turn consumed nothing
push_declaration(list, current, r) ==
    [statements |-> Append(list.statements, r.statement),
     parser |-> IF r.parser.current = current /\ ~r.parser.aborted
                THEN [r.parser EXCEPT !.hung = TRUE] ELSE r.parser]

\* while !self.check(RIGHT_BRACE) && !self.is_at_end() { statements.push(self.declaration()); }
block_loop(toks, list) ==
    IF \/ list.parser.aborted
       \/ list.parser.hung
       \/ parser_check(toks, list.parser, "RIGHT_BRACE")
       \/ parser_is_at_end(toks, list.parser)
    THEN list
    ELSE block_loop(toks, push_declaration(list, list.parser.current,
                                           declaration(toks, list.parser)))

block_statement(toks, p) ==
    block_statement_make(toks, block_loop(toks, [statements |-> <<>>, parser |-> p]))

statement(toks, p) ==
    IF p.aborted \/ p.hung THEN expression_statement(toks, p)
    ELSE IF parser_peek(toks, p).token_type = "SEMICOLON"
    THEN expression_statement(toks, parser_advance(toks, p))
    ELSE IF parser_check(toks, p, "LEFT_BRACE")
    THEN block_statement(toks, parser_advance(toks, p))
    ELSE expression_statement(toks, p)

declaration(toks, p) ==
    IF parser_check(toks, p, "VAR")
    THEN var_declaration(toks, parser_advance(toks, p))
    ELSE statement(toks, p)

RECURSIVE parse_loop(_, _)
\* while !self.is_at_end() { statements.push(self.declaration()); }
parse_loop(toks, list) ==
    IF list.parser.aborted \/ list.parser.hung \/ parser_is_at_end(toks, list.parser)
    THEN list
    ELSE parse_loop(toks, push_declaration(list, list.parser.current,
                                           declaration(toks, list.parser)))

parse(toks) == parse_loop(toks, [statements |-> <<>>, parser |-> NewParser])

(* Interpreter *)
\* A ReferenceRecord is [type, base, referenced_name]; a CompletionRecord is
\* [type_, value].  The outcome of evaluating a node is
\* [type_, value, env]: the completion and the environment left behind, `env`
\* being [values, variable_bindings] of the global environment record; type_ is
\* Panic when a panic ended the evaluation (unimplemented!, unreachable!,
\* todo!, a failed unwrap).  Every property the interpreter creates is a writable,
\* enumerable, configurable data property, so `values` keeps the value only.

ReferenceRecord(base, referenced_name) ==
    [type |-> "ReferenceRecord", base |-> base, referenced_name |-> referenced_name]

IsReferenceRecord(v) == v.type = "ReferenceRecord"

CompletionRecord(type_, value) == [type_ |-> type_, value |-> value]

create_normal_completion(value) == CompletionRecord("Normal", value)

create_throw_completion(value) == CompletionRecord("Throw", value)

Outcome(type_, value, env) == [type_ |-> type_, value |-> value, env |-> env]

Panicked(env) == Outcome(Panic, Undefined, env)

\* HashMap::new()
EmptyMap == [key \in {} |-> Undefined]

\* Interpreter::new(): an empty binding object, an empty declarative record
NewEnvironment == [values |-> EmptyMap, variable_bindings |-> EmptyMap]

\* DeclarativeEnvironmentRecord: each operation gives [type_, value, variable_bindings]
BindingResult(type_, value, bindings) ==
    [type_ |-> type_, value |-> value, variable_bindings |-> bindings]

declarative_has_binding(bindings, binding_id) == binding_id \in DOMAIN bindings

create_mutable_binding(bindings, binding_id) ==
    BindingResult("Normal", Undefined,
        IF binding_id \in DOMAIN bindings THEN bindings
        ELSE (binding_id :> Undefined) @@ bindings)

\* initialize_binding without step 2: the bound value is left as it was
initialize_binding_keeping_value(bindings, binding_id, value) ==
    IF binding_id \in DOMAIN bindings
    THEN BindingResult("Normal", Undefined, bindings)
    ELSE BindingResult(Panic, Undefined, bindings)

initialize_binding(bindings, binding_id, value) ==
    IF binding_id \in DOMAIN bindings
    THEN BindingResult("Normal", Undefined, (binding_id :> value) @@ bindings)
    ELSE BindingResult(Panic, Undefined, bindings)

get_binding_value(bindings, binding_id) ==
    IF binding_id \in DOMAIN bindings
    THEN BindingResult("Normal", bindings[binding_id], bindings)
    ELSE BindingResult(Panic, Undefined, bindings)

set_mutable_binding(bindings, binding_id, value, strict) ==
    IF binding_id \notin DOMAIN bindings
    THEN IF strict THEN BindingResult("Throw", ErrorObject, bindings)
         ELSE BindingResult("Normal", Undefined, (binding_id :> value) @@ bindings)
    ELSE IF bindings[binding_id].type = "Undefined"
    THEN BindingResult("Throw", ErrorObject, bindings)
    ELSE BindingResult("Normal", Undefined, (binding_id :> value) @@ bindings)

\* JSObject: [aborted, values] after the operation
validate_and_apply_property_descriptor(object_values, property_key, value) ==
    IF property_key \in DOMAIN object_values
    THEN [aborted |-> TRUE, values |-> object_values]
    ELSE [aborted |-> FALSE, values |-> (property_key :> value) @@ object_values]

\* absent or writable data property: both arms end in define_own_property
ordinary_set_with_own_descriptor(object_values, property_key, value) ==
    validate_and_apply_property_descriptor(object_values, property_key, value)

ordinary_has_property(object_values, property_key) == property_key \in DOMAIN object_values

\* ObjectEnvironmentRecord::get_binding_value
object_get_binding_value(object_values, binding_id) ==
    IF binding_id \in DOMAIN object_values
    THEN CompletionRecord("Normal", object_values[binding_id])
    ELSE CompletionRecord(Panic, Undefined)

\* GlobalEnvironmentRecord::get_binding_value
global_get_binding_value(env, binding_id) ==
    IF declarative_has_binding(env.variable_bindings, binding_id)
    THEN CompletionRecord(get_binding_value(env.variable_bindings, binding_id).type_,
                          get_binding_value(env.variable_bindings, binding_id).value)
    ELSE object_get_binding_value(env.values, binding_id)

\* EnvironmentRecord::has_binding of the global record asks the object record only
has_binding(env, binding_name) == ordinary_has_property(env.values, binding_name)

get_identifier_reference(env, name) ==
    create_normal_completion(
        ReferenceRecord(IF has_binding(env, name) THEN "EnvironmentRecord" ELSE "Unresolvable", name))

resolve_binding(env, name) == get_identifier_reference(env, name)

get_value(v, env) ==
    IF ~IsReferenceRecord(v) THEN CompletionRecord("Normal", v)
    ELSE IF v.base = "Unresolvable" THEN CompletionRecord("Throw", ErrorObject)
    ELSE IF global_get_binding_value(env, v.referenced_name).type_ = Panic
    THEN CompletionRecord(Panic, Undefined)
    ELSE CompletionRecord("Normal", global_get_binding_value(env, v.referenced_name).value)

\* Interpreter::set(global_object, key, value, false) and what put_value returns after it
put_unresolvable(env, set) ==
    IF set.aborted THEN Panicked(env)
    ELSE Outcome("Normal", Undefined, [env EXCEPT !.values = set.values])

put_value(v, w, env) ==
    IF ~IsReferenceRecord(v) THEN Outcome("Throw", ErrorObject, env)
    ELSE IF v.base = "Unresolvable"
    THEN put_unresolvable(env, ordinary_set_with_own_descriptor(env.values, v.referenced_name, w))
    ELSE Panicked(env)

to_primitive(value) == IF value.type \in {"Object", Panic} THEN PanicValue ELSE value

to_number(value) ==
    CASE value.type = "Numeric" -> value
      [] value.type = "Undefined" -> String(<<"N", "a", "N">>)
      [] value.type = "Null" -> Numeric(0)
      [] value.type = "Boolean" -> IF value.boolean THEN Numeric(1) ELSE Numeric(0)
      [] OTHER -> PanicValue

to_numeric(value) == to_number(to_number(to_primitive(value)))

to_boolean(value) ==
    CASE value.type = "Boolean" -> value
      [] value.type \in {"Undefined", "Null"} -> Boolean(FALSE)
      [] value.type = "Numeric" -> Boolean(value.number # 0)
      [] value.type = "String" -> Boolean(value.string # <<>>)
      [] OTHER -> PanicValue

RECURSIVE decimal_digits(_)
decimal_digits(n) ==
    IF n < 10 THEN <<CHOOSE c \in Digits : DigitValue[c] = n>>
    ELSE Append(decimal_digits(n \div 10), CHOOSE c \in Digits : DigitValue[c] = n % 10)

\* f64::to_string of an integer
number_to_string(n) == IF n < 0 THEN <<"-">> \o decimal_digits(0 - n) ELSE decimal_digits(n)

to_string(value) ==
    CASE value.type = "String" -> value
      [] value.type = "Undefined" -> String(<<"u", "n", "d", "e", "f", "i", "n", "e", "d">>)
      [] value.type = "Null" -> String(<<"n", "u", "l", "l">>)
      [] value.type = "Boolean" ->
            IF value.boolean THEN String(<<"t", "r", "u", "e">>) ELSE String(<<"f", "a", "l", "s", "e">>)
      [] value.type = "Numeric" -> String(number_to_string(value.number))
      [] OTHER -> PanicValue

same_type(left, right) == left.type = right.type

string_concatenation(left_string, right_string) ==
    IF left_string.type = "String" /\ right_string.type = "String"
    THEN String(left_string.string \o right_string.string)
    ELSE PanicValue

numeric_operation(left_numeric, right_numeric, operator) ==
    IF left_numeric.type # "Numeric" \/ right_numeric.type # "Numeric" THEN PanicValue
    ELSE CASE operator = "PLUS" -> Numeric(left_numeric.number + right_numeric.number)
           [] operator = "STAR" -> Numeric(left_numeric.number * right_numeric.number)
           [] operator = "MINUS" -> Numeric(left_numeric.number - right_numeric.number)
           [] operator = "SLASH" ->
                IF right_numeric.number # 0 /\ left_numeric.number % right_numeric.number = 0
                THEN Numeric(left_numeric.number \div right_numeric.number)
                ELSE Fraction
           [] OTHER -> PanicValue

\* a variant that takes the string branch by the left operand alone
apply_primitives_by_left_operand(left_primitive, right_primitive, operator) ==
    IF left_primitive.type = Panic \/ right_primitive.type = Panic THEN PanicValue
    ELSE IF operator = "PLUS" /\ left_primitive.type = "String"
    THEN string_concatenation(to_string(left_primitive), to_string(right_primitive))
    ELSE IF operator \in {"PLUS", "STAR", "SLASH", "MINUS"}
    THEN numeric_operation(to_numeric(left_primitive), to_numeric(right_primitive), operator)
    ELSE PanicValue

apply_primitives(left_primitive, right_primitive, operator) ==
    IF left_primitive.type = Panic \/ right_primitive.type = Panic THEN PanicValue
    ELSE IF operator = "PLUS" /\ (left_primitive.type = "String" \/ right_primitive.type = "String")
    THEN string_concatenation(to_string(left_primitive), to_string(right_primitive))
    ELSE IF operator \in {"PLUS", "STAR", "SLASH", "MINUS"}
    THEN numeric_operation(to_numeric(left_primitive), to_numeric(right_primitive), operator)
    ELSE PanicValue

apply_string_or_numeric_binary_operator(left, right, operator) ==
    apply_primitives(to_primitive(left), to_primitive(right), operator)

RECURSIVE evaluate(_, _)
RECURSIVE execute(_, _)

\* the completion! macro lets a Normal completion through; a Throw (or a panic) returns at once
binary_result(value, env) ==
    IF value.type = Panic THEN Panicked(env) ELSE Outcome("Normal", value, env)

binary_right_value(operator, left_value, right_value, env) ==
    IF right_value.type_ # "Normal" THEN Outcome(right_value.type_, right_value.value, env)
    ELSE binary_result(
             apply_string_or_numeric_binary_operator(left_value, right_value.value, operator), env)

binary_right(operator, left_value, right_expression) ==
    IF right_expression.type_ # "Normal" THEN right_expression
    ELSE binary_right_value(operator, left_value,
             get_value(right_expression.value, right_expression.env), right_expression.env)

binary_left_value(expr, left_value, env) ==
    IF left_value.type_ # "Normal" THEN Outcome(left_value.type_, left_value.value, env)
    ELSE binary_right(expr.operator.token_type, left_value.value,
                      evaluate(expr.right, env))

visit_binary(expr, left_expression) ==
    IF left_expression.type_ # "Normal" THEN left_expression
    ELSE binary_left_value(expr,
             get_value(left_expression.value, left_expression.env), left_expression.env)

unary_minus(old_value, env) ==
    IF old_value.type = "Numeric" THEN Outcome("Normal", Numeric(0 - old_value.number), env)
    ELSE Panicked(env)

unary_minus_value(right_value_js, env) ==
    IF right_value_js.type_ = Panic THEN Panicked(env)
    ELSE unary_minus(to_numeric(right_value_js.value), env)

\* visit_unary after `let right = self.evaluate(&expression.right)`
visit_unary(operator, right) ==
    IF right.type_ = Panic THEN right
    ELSE CASE operator = "PLUS" ->
                IF IsReferenceRecord(right.value) THEN Panicked(right.env)
                ELSE binary_result(to_number(right.value), right.env)
           [] operator = "MINUS" ->
                unary_minus_value(get_value(right.value, right.env), right.env)
           [] operator = "BANG" ->
                IF IsReferenceRecord(right.value) THEN Panicked(right.env)
                ELSE IF to_boolean(right.value).type = Panic THEN Panicked(right.env)
                ELSE Outcome("Normal", Boolean(~to_boolean(right.value).boolean), right.env)
           [] OTHER -> Panicked(right.env)

assignment_result(right_value, put) ==
    IF put.type_ = Panic THEN put
    ELSE Outcome(right_value.type_, right_value.value, put.env)

assignment_put(left_reference, right_value, env) ==
    IF right_value.type_ = Panic \/ IsReferenceRecord(right_value.value) THEN Panicked(env)
    ELSE assignment_result(right_value, put_value(left_reference.value, right_value.value, env))

assignment_right(left_reference, right_reference) ==
    IF right_reference.type_ = Panic THEN right_reference
    ELSE assignment_put(left_reference,
             get_value(right_reference.value, right_reference.env), right_reference.env)

\* the left-hand side is evaluated a second time for the println!
assignment_left(expr, left_reference, printed) ==
    IF printed.type_ = Panic THEN printed
    ELSE assignment_right(left_reference, evaluate(expr.expression, printed.env))

assignment_first(expr, left_reference) ==
    IF left_reference.type_ = Panic THEN left_reference
    ELSE assignment_left(expr, left_reference,
             evaluate(expr.left_hand_side_expression, left_reference.env))

visit_assignment_expression(expr, env) ==
    IF expr.expression.node = "ObjectLiteralExpression" THEN Panicked(env)
    ELSE assignment_first(expr, evaluate(expr.left_hand_side_expression, env))

visit_identifier_expression(expr, env) ==
    Outcome("Normal", resolve_binding(env, expr.binding_identifier.lexeme).value, env)

evaluate(expr, env) ==
    CASE expr.node = "LiteralExpression" -> Outcome("Normal", expr.value, env)
      [] expr.node = "ParenthesizedExpression" -> evaluate(expr.expression, env)
      [] expr.node = "IdentifierExpression" -> visit_identifier_expression(expr, env)
      [] expr.node = "BinaryExpression" ->
            visit_binary(expr, evaluate(expr.left, env))
      [] expr.node = "UnaryExpression" ->
            visit_unary(expr.operator.token_type, evaluate(expr.right, env))
      [] expr.node = "AssignmentExpression" -> visit_assignment_expression(expr, env)
      [] OTHER -> Outcome("Normal", Undefined, env)

declaration_put(put) ==
    IF put.type_ = Panic THEN put ELSE Outcome("Normal", Undefined, put.env)

declaration_value(left_hand_side, value, env) ==
    IF value.type_ = Panic THEN Panicked(env)
    ELSE IF IsReferenceRecord(value.value) THEN Outcome("Normal", Undefined, env)
    ELSE declaration_put(put_value(left_hand_side.value, value.value, env))

declaration_initialized(left_hand_side, right_hand_side) ==
    IF right_hand_side.type_ = Panic THEN right_hand_side
    ELSE declaration_value(left_hand_side,
             get_value(right_hand_side.value, right_hand_side.env), right_hand_side.env)

visit_variable_declaration(expr, env) ==
    IF expr.initializer = <<>> THEN Outcome("Normal", Undefined, env)
    ELSE declaration_initialized(resolve_binding(env, expr.binding_identifier.lexeme),
                                 evaluate(expr.initializer[1], env))

RECURSIVE block_statements(_, _, _)
\* for statement in expression.statements.iter() { value = self.execute(statement); }
block_statements(block, i, value) ==
    IF i > Len(block) \/ value.type_ = Panic THEN value
    ELSE block_statements(block, i + 1, execute(block[i], value.env))

visit_block_statement(expr, env) ==
    block_statements(expr.statements, 1, Outcome("Normal", Undefined, env))

execute(stmt, env) ==
    CASE stmt.node = "VariableStatement" -> visit_variable_declaration(stmt, env)
      [] stmt.node = "BlockStatement" -> visit_block_statement(stmt, env)
      [] OTHER -> evaluate(stmt.expression, env)

(* Sources *)
\* Each source is the text of one file (Script) or one line (Shell).

\* var x = 1 + 2; x
VarThenRead ==
    <<"v", "a", "r", " ", "x", " ", "=", " ", "1", " ", "+", " ", "2", ";", " ", "x">>

\* var a = 2 * (3 + 4); a
VarParenthesizedThenRead ==
    <<"v", "a", "r", " ", "a", " ", "=", " ", "2", " ", "*", " ", "(", "3", " ", "+", " ", "4", ")", ";", " ", "a">>

\* var x = 1 + 2;
VarOnly ==
    <<"v", "a", "r", " ", "x", " ", "=", " ", "1", " ", "+", " ", "2", ";">>

\* var x; x
VarWithoutInitializer ==
    <<"v", "a", "r", " ", "x", ";", " ", "x">>

\* s = "x"; s = s + 1; s
AppendToString ==
    <<"s", " ", "=", " ", "\"", "x", "\"", ";", " ", "s", " ", "=", " ", "s", " ", "+", " ", "1", ";", " ", "s">>

\* var s = "x"; s = s + 1; s
VarAppendToString ==
    <<"v", "a", "r", " ", "s", " ", "=", " ", "\"", "x", "\"", ";", " ", "s", " ", "=", " ", "s", " ", "+", " ", "1", ";", " ", "s">>

\* n = 1; n = 2; n
Reassign ==
    <<"n", " ", "=", " ", "1", ";", " ", "n", " ", "=", " ", "2", ";", " ", "n">>

\* foo
UnboundName ==
    <<"f", "o", "o">>

\* x = 1; x + 1
ReadInSum ==
    <<"x", " ", "=", " ", "1", ";", " ", "x", " ", "+", " ", "1">>

\* y = "a" + 1;
AssignConcatenation ==
    <<"y", " ", "=", " ", "\"", "a", "\"", " ", "+", " ", "1", ";">>

\* 1 + 2 @
UnexpectedCharacter ==
    <<"1", " ", "+", " ", "2", " ", "@">>

\* "abc
UnterminatedString ==
    <<"\"", "a", "b", "c">>

\* (1 + 2
MissingRightParen ==
    <<"(", "1", " ", "+", " ", "2">>

\* { 1
MissingRightBrace ==
    <<"{", " ", "1">>

\* ({a 1})
MissingColon ==
    <<"(", "{", "a", " ", "1", "}", ")">>

\* 1 = 2
InvalidAssignmentTarget ==
    <<"1", " ", "=", " ", "2">>

\* 1 + 2
CleanSum ==
    <<"1", " ", "+", " ", "2">>

\* )
StrayRightParen ==
    <<")">>

\* }
StrayRightBrace ==
    <<"}">>

\* 1 . 2
StrayDot ==
    <<"1", " ", ".", " ", "2">>

\* if
UnsupportedKeyword ==
    <<"i", "f">>

\* ({1: 2})
NumberPropertyKey ==
    <<"(", "{", "1", ":", " ", "2", "}", ")">>

\* ({a: 1,})
TrailingComma ==
    <<"(", "{", "a", ":", " ", "1", ",", "}", ")">>

\* x = {a: 1}
AssignObjectLiteral ==
    <<"x", " ", "=", " ", "{", "a", ":", " ", "1", "}">>

\* f(1, 2)
Call ==
    <<"f", "(", "1", ",", " ", "2", ")">>

\* x = 1; -x
MinusOfBound ==
    <<"x", " ", "=", " ", "1", ";", " ", "-", "x">>

\* +true
PlusOfTrue ==
    <<"+", "t", "r", "u", "e">>

\* 1 == 2
EqualityOperator ==
    <<"1", " ", "=", "=", " ", "2">>

\* 1 // c
CommentAfterNumber ==
    <<"1", " ", "/", "/", " ", "c">>

\* { x = 1; x }
Block ==
    <<"{", " ", "x", " ", "=", " ", "1", ";", " ", "x", " ", "}">>

\* !foo
NegationOfUnbound ==
    <<"!", "f", "o", "o">>

\* x = foo
AssignUnbound ==
    <<"x", " ", "=", " ", "f", "o", "o">>

\* 1\n+ 2
SecondLine ==
    <<"1", "\n", "+", " ", "2">>

\* a + b * c
MixedPrecedence == <<"a", " ", "+", " ", "b", " ", "*", " ", "c">>

\* a - b - c
RepeatedMinus == <<"a", " ", "-", " ", "b", " ", "-", " ", "c">>

\* a / b * c
RepeatedFactor == <<"a", " ", "/", " ", "b", " ", "*", " ", "c">>

\* a = b = c
ChainedAssignment == <<"a", " ", "=", " ", "b", " ", "=", " ", "c">>

Programs ==
    {VarThenRead, VarParenthesizedThenRead, VarOnly, VarWithoutInitializer,
     AppendToString, VarAppendToString, Reassign, UnboundName,
     ReadInSum, AssignConcatenation, UnexpectedCharacter, UnterminatedString,
     MissingRightParen, MissingRightBrace, MissingColon, InvalidAssignmentTarget,
     CleanSum, StrayRightParen, NumberPropertyKey, TrailingComma,
     AssignObjectLiteral, Call, MinusOfBound, PlusOfTrue,
     EqualityOperator, CommentAfterNumber, Block, NegationOfUnbound,
     AssignUnbound, SecondLine, StrayRightBrace, StrayDot, UnsupportedKeyword,
     MixedPrecedence, RepeatedMinus, RepeatedFactor, ChainedAssignment}

IdentifierNames == {<<"n">>, <<"f", "o", "o">>}

\* a literal of each primitive kind: its text and the JSValue it denotes
PrimitiveLiterals ==
    {[text |-> <<"0">>, value |-> Numeric(0)],
     [text |-> <<"1">>, value |-> Numeric(1)],
     [text |-> <<"1", "2">>, value |-> Numeric(12)],
     [text |-> <<"\"", "a", "\"">>, value |-> String(<<"a">>)],
     [text |-> <<"\"", "\"">>, value |-> String(<<>>)],
     [text |-> <<"\"", "h", "i", "\"">>, value |-> String(<<"h", "i">>)],
     [text |-> <<"t", "r", "u", "e">>, value |-> Boolean(TRUE)],
     [text |-> <<"f", "a", "l", "s", "e">>, value |-> Boolean(FALSE)],
     [text |-> <<"n", "u", "l", "l">>, value |-> Null]}

\* n = v; n
PutThenGet(n, v) == n \o <<" ", "=", " ">> \o v \o <<";", " ">> \o n

\* l + r
Addition(l, r) == l \o <<" ", "+", " ">> \o r

\* !v
Negation(v) == <<"!">> \o v

\* n = v; !n
NegationOfBound(n, v) == n \o <<" ", "=", " ">> \o v \o <<";", " ", "!">> \o n

Sources ==
    Programs
    \cup {PutThenGet(n, v.text) : n \in IdentifierNames, v \in PrimitiveLiterals}
    \cup {Addition(l.text, r.text) : l \in PrimitiveLiterals, r \in PrimitiveLiterals}
    \cup {Negation(v.text) : v \in PrimitiveLiterals}
    \cup {NegationOfBound(n, v.text) : n \in IdentifierNames, v \in PrimitiveLiterals}

(* The run *)

\* main took the JS path: the HTML tokenizer was never constructed
NoTokenizer ==
    /\ tokens = <<>>
    /\ overflow_checks = FALSE
    /\ position = 0
    /\ tokenization_state = "Data"
    /\ html_tokens = <<>>
    /\ reconsume_flag = FALSE
    /\ return_state = "Data"
    /\ temporary_buffer = Str0
    /\ attribute_buffer = [name |-> Str0, value |-> Str0]
    /\ character_reference_code = U32(0)
    /\ insertion_mode = "Initial"
    /\ nodes = InitialNodes
    /\ stack_of_open_elements = InitialStack
    /\ head_element = NoNode
    /\ parse_errors = <<>>
    /\ received = <<>>
    /\ next_input_character = None
    /\ pc = "idle"
    /\ appropriate = <<>>
    /\ scanner = <<>>

\* Interpreter::new(), then run_file (Script) or the first line of run_prompt (Shell)
JsInit ==
    /\ NoTokenizer
    /\ source \in Sources
    /\ execution_mode \in {"Script", "Shell"}
    /\ js_tokens = <<>>
    /\ statements = <<>>
    /\ next_statement = 0
    /\ values = NewEnvironment.values
    /\ variable_bindings = NewEnvironment.variable_bindings
    /\ had_error = FALSE
    /\ completions = <<>>
    /\ operations = <<>>
    /\ reported = <<>>
    /\ exit_code = <<>>
    /\ js_pc = "scan"

\* let mut scanner = Scanner::new(source); let tokens = scanner.scan_tokens().clone();
RunScanner ==
    /\ js_pc = "scan"
    /\ \E sc \in {scan_tokens(source)} :
           /\ js_tokens' = sc.tokens
           /\ reported' = reported \o sc.reported
    /\ js_pc' = "parse"
    /\ UNCHANGED <<source, execution_mode, statements, next_statement, values,
                   variable_bindings, had_error, completions, operations, exit_code>>
    /\ UNCHANGED html_vars
    /\ UNCHANGED call_vars

\* let mut parser = Parser::new(tokens); let statements = parser.parse();
RunParser ==
    /\ js_pc = "parse"
    /\ \E parsed \in {parse(js_tokens)} :
           /\ reported' = reported \o parsed.parser.reported
           /\ statements' = IF parsed.parser.aborted \/ parsed.parser.hung
                            THEN statements ELSE parsed.statements
           /\ js_pc' = IF parsed.parser.aborted THEN "exited"
                       ELSE IF parsed.parser.hung THEN "hung" ELSE "interpret"
           /\ exit_code' = IF parsed.parser.aborted THEN <<101>> ELSE exit_code
    /\ UNCHANGED <<source, execution_mode, js_tokens, next_statement, values,
                   variable_bindings, had_error, completions, operations>>
    /\ UNCHANGED html_vars
    /\ UNCHANGED call_vars

\* one turn of the loop of Interpreter::interpret
InterpretStatement ==
    /\ js_pc = "interpret"
    /\ next_statement < Len(statements)
    /\ \E result \in {execute(statements[next_statement + 1],
                              [values |-> values, variable_bindings |-> variable_bindings])} :
           /\ values' = result.env.values
           /\ variable_bindings' = result.env.variable_bindings
           /\ completions' = IF result.type_ = Panic THEN completions
                             ELSE Append(completions, CompletionRecord(result.type_, result.value))
           /\ reported' = IF result.type_ = "Throw"
                          THEN Append(reported, Diagnostic("Interpreter", "Uncaught", ""))
                          ELSE reported
           /\ js_pc' = IF result.type_ = Panic \/ (result.type_ = "Throw" /\ execution_mode = "Script")
                       THEN "exited" ELSE "interpret"
           /\ exit_code' = IF result.type_ = Panic THEN <<101>>
                           ELSE IF result.type_ = "Throw" /\ execution_mode = "Script" THEN <<1>>
                           ELSE exit_code
           /\ next_statement' = IF result.type_ = Panic THEN next_statement ELSE next_statement + 1
    /\ UNCHANGED <<source, execution_mode, js_tokens, statements, had_error, operations>>
    /\ UNCHANGED html_vars
    /\ UNCHANGED call_vars

\* interpret returned.  Script: `if self.had_error { exit(65) }`, else main returns;
\* Shell: `self.had_error = false` and the prompt waits for the next line
RunReturns ==
    /\ js_pc = "interpret"
    /\ next_statement = Len(statements)
    /\ js_pc' = IF execution_mode = "Script" THEN "exited" ELSE "prompt"
    /\ exit_code' = IF execution_mode = "Script"
                    THEN (IF had_error THEN <<65>> ELSE <<0>>)
                    ELSE exit_code
    /\ had_error' = IF execution_mode = "Script" THEN had_error ELSE FALSE
    /\ UNCHANGED <<source, execution_mode, js_tokens, statements, next_statement, values,
                   variable_bindings, completions, operations, reported>>
    /\ UNCHANGED html_vars
    /\ UNCHANGED call_vars

JsNext == RunScanner \/ RunParser \/ InterpretStatement \/ RunReturns

JsSpec == JsInit /\ [][JsNext]_vars

(* The declarative environment record on its own *)

BindingNames == {<<"x">>, <<"y">>}

BindingValues == {Undefined, Numeric(1), String(<<"a">>)}

MaxOperations == 3

\* a new DeclarativeEnvironmentRecord { variable_bindings: HashMap::new(), .. }
RecordInit ==
    /\ NoTokenizer
    /\ source = <<>>
    /\ execution_mode = "Script"
    /\ js_tokens = <<>>
    /\ statements = <<>>
    /\ next_statement = 0
    /\ values = EmptyMap
    /\ variable_bindings = EmptyMap
    /\ had_error = FALSE
    /\ completions = <<>>
    /\ operations = <<>>
    /\ reported = <<>>
    /\ exit_code = <<>>
    /\ js_pc = "record"

\* `strict` is the S argument of SetMutableBinding, FALSE for the other operations
Operation(op, name, value) == [op |-> op, name |-> name, value |-> value, strict |-> FALSE]

\* the record after an operation that returned `result` (or panicked)
Applied(operation, result) ==
    /\ operations' = Append(operations, operation)
    /\ variable_bindings' = result.variable_bindings
    /\ completions' = IF result.type_ = Panic THEN completions
                      ELSE Append(completions, CompletionRecord(result.type_, result.value))
    /\ js_pc' = IF result.type_ = Panic THEN "exited" ELSE "record"
    /\ exit_code' = IF result.type_ = Panic THEN <<101>> ELSE exit_code
    /\ UNCHANGED <<source, execution_mode, js_tokens, statements, next_statement, values,
                   had_error, reported>>
    /\ UNCHANGED html_vars
    /\ UNCHANGED call_vars

CreateMutableBinding ==
    /\ js_pc = "record"
    /\ Len(operations) < MaxOperations
    /\ \E n \in BindingNames :
           Applied(Operation("CreateMutableBinding", n, Undefined),
                   create_mutable_binding(variable_bindings, n))

InitializeBinding ==
    /\ js_pc = "record"
    /\ Len(operations) < MaxOperations
    /\ \E n \in BindingNames, v \in BindingValues :
           Applied(Operation("InitializeBinding", n, v),
                   initialize_binding(variable_bindings, n, v))

GetBindingValue ==
    /\ js_pc = "record"
    /\ Len(operations) < MaxOperations
    /\ \E n \in BindingNames :
           Applied(Operation("GetBindingValue", n, Undefined),
                   get_binding_value(variable_bindings, n))

SetMutableBinding ==
    /\ js_pc = "record"
    /\ Len(operations) < MaxOperations
    /\ \E n \in BindingNames, v \in BindingValues, strict \in BOOLEAN :
           Applied([Operation("SetMutableBinding", n, v) EXCEPT !.strict = strict],
                   set_mutable_binding(variable_bindings, n, v, strict))

RecordNext == CreateMutableBinding \/ InitializeBinding \/ GetBindingValue \/ SetMutableBinding

RecordSpec == RecordInit /\ [][RecordNext]_vars

\* ---------------------------------------------------------------------------
\* Properties of the JavaScript pipeline
\* ---------------------------------------------------------------------------

\* C14: on a declarative environment record, CreateMutableBinding(n), then
\* InitializeBinding(n, v), then GetBindingValue(n) returns a Normal completion
\* carrying v.
C14_CreateInitializeGet ==
    \A i \in 1..Len(operations) :
        (/\ i + 2 <= Len(operations)
         /\ operations[i].op = "CreateMutableBinding"
         /\ operations[i + 1].op = "InitializeBinding"
         /\ operations[i + 1].name = operations[i].name
         /\ operations[i + 2].op = "GetBindingValue"
         /\ operations[i + 2].name = operations[i].name)
        => /\ Len(completions) >= i + 2
           /\ completions[i + 2] = create_normal_completion(operations[i + 1].value)

C14_Witness ==
    /\ operations = <<Operation("CreateMutableBinding", <<"x">>, Undefined),
                      Operation("InitializeBinding", <<"x">>, Numeric(1)),
                      Operation("GetBindingValue", <<"x">>, Undefined)>>
    /\ Len(completions) = 3
    /\ completions[3] = create_normal_completion(Numeric(1))

\* the run is over: the process has ended, hangs, or waits at the prompt
JsFinished == js_pc \in {"exited", "hung", "prompt"}

\* C13: in a fresh interpreter, for a name n that does not resolve and a
\* primitive value v, executing `n = v` and then the expression statement `n`
\* gives a Normal completion whose value is v, a JS value and no reference.
C13_PutThenGet ==
    \A n \in IdentifierNames, v \in PrimitiveLiterals :
        (source = PutThenGet(n, v.text) /\ JsFinished)
        => /\ Len(completions) >= 2
           /\ completions[2] = create_normal_completion(v.value)


\* C15: executing `var x = e;` for an unbound name x completes normally and
\* binds x to the value of e, and a following read of x yields that value:
\* `var x = 1 + 2;` then `x` gives 3, `var a = 2 * (3 + 4);` then `a` gives 14.
C15_VarDeclarationBinds ==
    /\ (source = VarOnly /\ JsFinished)
       => /\ Len(completions) = 1
          /\ completions[1].type_ = "Normal"
          /\ <<"x">> \in DOMAIN values
          /\ values[<<"x">>] = Numeric(3)
    /\ (source = VarThenRead /\ JsFinished)
       => /\ Len(completions) = 2
          /\ completions[1].type_ = "Normal"
          /\ completions[2] = create_normal_completion(Numeric(3))
    /\ (source = VarParenthesizedThenRead /\ JsFinished)
       => /\ Len(completions) = 2
          /\ completions[1].type_ = "Normal"
          /\ completions[2] = create_normal_completion(Numeric(14))


\* C16: assigning to a name that already holds a value replaces the value:
\* after `s = "x"` (or `var s = "x"`), `s = s + 1` completes normally and s
\* then holds "x1"; after `n = 1; n = 2`, n holds 2.
C16_AssignmentReplaces ==
    /\ (source \in {AppendToString, VarAppendToString} /\ JsFinished)
       => /\ Len(completions) = 3
          /\ completions[2] = create_normal_completion(String(<<"x", "1">>))
          /\ <<"s">> \in DOMAIN values
          /\ values[<<"s">>] = String(<<"x", "1">>)
    /\ (source = Reassign /\ JsFinished)
       => /\ Len(completions) = 3
          /\ completions[2] = create_normal_completion(Numeric(2))
          /\ <<"n">> \in DOMAIN values
          /\ values[<<"n">>] = Numeric(2)


\* C17: the expression statement `foo`, where foo has no binding, yields a
\* Throw completion; the driver reports it as Uncaught and, in script mode,
\* the process exits with code 1.
C17_UnboundNameThrows ==
    (source = UnboundName /\ JsFinished)
    => /\ Len(completions) = 1
       /\ completions[1].type_ = "Throw"
       /\ reported = <<Diagnostic("Interpreter", "Uncaught", "")>>
       /\ execution_mode = "Script" => exit_code = <<1>>


\* ToString of a primitive literal: the characters of a string, and for a
\* number, a boolean or null the canonical text, which is the literal's own
ToStringOf(literal) ==
    IF literal.value.type = "String" THEN literal.value.string ELSE literal.text

\* ToNumeric of a number, a boolean or null
ToNumericOf(literal) ==
    CASE literal.value.type = "Numeric" -> literal.value.number
      [] literal.value.type = "Boolean" -> IF literal.value.boolean THEN 1 ELSE 0
      [] literal.value.type = "Null" -> 0

\* l + r by the rule of the addition operator
SumOf(l, r) ==
    IF l.value.type = "String" \/ r.value.type = "String"
    THEN String(ToStringOf(l) \o ToStringOf(r))
    ELSE Numeric(ToNumericOf(l) + ToNumericOf(r))

\* C18: for `l + r` over primitive operands (strings, numbers, booleans,
\* null) the statement completes normally; if either operand is a string the
\* value is the concatenation of ToString of both, otherwise it is the sum of
\* ToNumeric of both.
C18_AdditionOfPrimitives ==
    \A l \in PrimitiveLiterals, r \in PrimitiveLiterals :
        (source = Addition(l.text, r.text) /\ JsFinished)
        => /\ completions = <<create_normal_completion(SumOf(l, r))>>
           /\ exit_code \in {<<>>, <<0>>}

\* `"a" + 1` has given "a1"
C18_Witness ==
    /\ source = <<"\"", "a", "\"", " ", "+", " ", "1">>
    /\ JsFinished
    /\ completions = <<create_normal_completion(String(<<"a", "1">>))>>

\* `true + 1` gives 2 and `null + 1` gives 1
C18_NumericExamples ==
    /\ (source = <<"t", "r", "u", "e", " ", "+", " ", "1">> /\ JsFinished)
       => completions = <<create_normal_completion(Numeric(2))>>
    /\ (source = <<"n", "u", "l", "l", " ", "+", " ", "1">> /\ JsFinished)
       => completions = <<create_normal_completion(Numeric(1))>>


\* ToBoolean of a primitive literal
ToBooleanOf(literal) ==
    CASE literal.value.type = "Boolean" -> literal.value.boolean
      [] literal.value.type = "Null" -> FALSE
      [] literal.value.type = "Numeric" -> literal.value.number # 0
      [] literal.value.type = "String" -> literal.value.string # <<>>

\* C19: `!e` evaluates to the Boolean negation of ToBoolean(GetValue(e)), for a
\* literal operand (`!0`, `!null`, `!""` give true, `!"hi"`, `!1` give false)
\* and for an identifier bound to a value, where the bound value is used.
C19_LogicalNot ==
    \A v \in PrimitiveLiterals :
        /\ (source = Negation(v.text) /\ JsFinished)
           => completions = <<create_normal_completion(Boolean(~ToBooleanOf(v)))>>
        /\ \A n \in IdentifierNames :
               (source = NegationOfBound(n, v.text) /\ JsFinished)
               => /\ Len(completions) = 2
                  /\ completions[2] = create_normal_completion(Boolean(~ToBooleanOf(v)))

\* the part of C19 about literal operands
C19_LogicalNotOfLiteral ==
    \A v \in PrimitiveLiterals :
        (source = Negation(v.text) /\ JsFinished)
        => completions = <<create_normal_completion(Boolean(~ToBooleanOf(v)))>>


\* the scanner or the parser has reported an error for the source
PipelineError ==
    \E i \in 1..Len(reported) : reported[i].from \in {"Scanner", "Parser"}

\* C20: in script mode, a scanner or parser error reported for the source
\* (unexpected character, unterminated string, missing `)`, `}` or `:`,
\* invalid assignment target) sets had_error and ends the run with exit code
\* 65; exit code 0 is returned only when no such error and no uncaught throw
\* occurred.
C20_ScriptExitCode ==
    (execution_mode = "Script" /\ js_pc = "exited")
    => /\ PipelineError => (had_error /\ exit_code = <<65>>)
       /\ exit_code = <<0>> => reported = <<>>


\* C21: Parser::parse terminates for every token sequence that ends with EOF:
\* every turn of the loops of parse and block_statement consumes at least one
\* token, so the parser never stays on a token for ever.
C21_ParserTerminates == js_pc # "hung"


\* C22: when the state dispatched in a loop iteration of Tokenizer::start
\* requests reconsumption, the next dispatch receives the same character
\* again, also when that character is the last one of the input.
C22_ReconsumeSameCharacter ==
    (/\ pc = "loop"
     /\ next_input_character # None
     /\ ~next_token(Machine, next_input_character).aborted
     /\ next_token(Machine, next_input_character).reconsume_flag)
    => LoopBody(Machine, next_input_character).character = next_input_character

\* the same, for a character that is not the last one of the input
C22_ReconsumeBeforeTheEnd ==
    (/\ pc = "loop"
     /\ next_input_character # None
     /\ ~next_token(Machine, next_input_character).aborted
     /\ next_token(Machine, next_input_character).reconsume_flag
     /\ next_token(Machine, next_input_character).position # Len(tokens))
    => LoopBody(Machine, next_input_character).character = next_input_character


\* the input, starting at the current input character, spells word
\* case-insensitively over its whole length
SpellsWord(word) ==
    /\ position >= 1
    /\ position - 1 + Len(word) <= Len(tokens)
    /\ \A i \in 1..Len(word) :
           to_ascii_lowercase(tokens[position - 1 + i]) = to_ascii_lowercase(word[i])

\* AfterDoctypeName is about to call match_characters("PUBLIC")
MatchesPublic ==
    /\ pc = "loop"
    /\ tokenization_state = "AfterDoctypeName"
    /\ next_input_character \notin Whitespace \cup {None, ">"}

\* C23: match_characters(word) returns true exactly when the input, starting
\* at the current input character, spells word case-insensitively over its
\* whole length (here for the word PUBLIC, as AfterDoctypeName calls it).
C23_MatchCharactersWholeWord ==
    MatchesPublic
    => \/ match_characters(Machine, <<"P","U","B","L","I","C">>).m.aborted
       \/ match_characters(Machine, <<"P","U","B","L","I","C">>).all_characters_match
              = SpellsWord(<<"P","U","B","L","I","C">>)


\* C24: named character reference lookup consumes the longest table entry that
\* is a prefix of the input after "&": `&notin;`, where the entry `&not` is a
\* proper prefix of the entry `&notin;`, is tokenized as the one character
\* U+2209 and not as U+00AC followed by the text `in;`.
C24_LongestNamedReference ==
    (tokens = NotinReference) =>
        /\ pc # "panicked"
        /\ (pc = "returned") => CharacterData(html_tokens) = <<"U+2209">>


-----------------------------------------------------------------------------
(* Tokenizer::appropriate_end_tag_token, applied to a token list on its own: *)
(* no state of the tokenizer that Tokenizer::start can reach calls it        *)

RECURSIVE end_tag_loop(_, _, _)
\* while index != 0 { match self.html_tokens[index].token_type { ... } index -= 1; } return false
\* (index counts from 0 as in the source)
end_tag_loop(toks, index, current_end_tag_token) ==
    IF index = 0 THEN FALSE
    ELSE IF toks[index + 1].token_type = "StartTag"
         THEN IF toks[index + 1].tag_name = current_end_tag_token.tag_name
              THEN TRUE
              ELSE end_tag_loop(toks, index - 1, current_end_tag_token)
         ELSE FALSE

\* `self.html_tokens.len() - 1` on an empty list panics (overflow, or the index
\* out of bounds after the wrap)
appropriate_end_tag_token(toks) ==
    IF Len(toks) = 0
    THEN [panicked |-> TRUE, returned |-> FALSE]
    ELSE [panicked |-> FALSE, returned |-> end_tag_loop(toks, Len(toks) - 1, toks[Len(toks)])]

MaxTokens == 3

TagNames == {<<"a">>, <<"b">>}

\* start tags and end tags of each name, and a character
TagTokens ==
    {[create_start_tag_html_token EXCEPT !.tag_name = n] : n \in TagNames}
    \cup {[create_end_tag_html_token EXCEPT !.tag_name = n] : n \in TagNames}
    \cup {create_character_html_token("x")}

TokenLists == UNION {[1..n -> TagTokens] : n \in 0..MaxTokens}

EndTagInit ==
    /\ tokens = <<>>
    /\ overflow_checks \in BOOLEAN
    /\ position = 0
    /\ tokenization_state = "RawTextEndTagName"
    /\ html_tokens \in TokenLists
    /\ reconsume_flag = FALSE
    /\ return_state = "Data"
    /\ temporary_buffer = Str0
    /\ attribute_buffer = [name |-> Str0, value |-> Str0]
    /\ character_reference_code = U32(0)
    /\ insertion_mode = "Initial"
    /\ nodes = InitialNodes
    /\ stack_of_open_elements = InitialStack
    /\ head_element = NoNode
    /\ parse_errors = <<>>
    /\ received = <<>>
    /\ next_input_character = None
    /\ pc = "idle"
    /\ NoInterpreter

\* if self.appropriate_end_tag_token() { ... }
AppropriateEndTagToken ==
    /\ appropriate = <<>>
    /\ tokenization_state = "RawTextEndTagName"
    /\ appropriate' = <<appropriate_end_tag_token(html_tokens)>>
    /\ UNCHANGED scanner
    /\ UNCHANGED html_vars
    /\ UNCHANGED js_vars

EndTagNext == AppropriateEndTagToken

EndTagSpec == EndTagInit /\ [][EndTagNext]_vars

\* the place in a token list of its most recent start tag token, 0 if it has none
MostRecentStartTag(toks) ==
    IF \A i \in 1..Len(toks) : toks[i].token_type # "StartTag" THEN 0
    ELSE CHOOSE i \in 1..Len(toks) :
             /\ toks[i].token_type = "StartTag"
             /\ \A j \in (i + 1)..Len(toks) : toks[j].token_type # "StartTag"

EndOfFileInDoctype ==
    /\ pc \in {"print", "returned", "panicked"}
    /\ "EndOFileInDoctype" \in Range(parse_errors)

\* C26: if the input ends in a doctype state, the DOCTYPE token, with
\* force_quirks set, is handed to the tree constructor first and the EndOfFile
\* token is handed to it afterwards.
C26_DoctypeThenEndOfFile ==
    EndOfFileInDoctype
    => /\ Len(received) >= 2
       /\ received[Len(received) - 1].token_type = "DocType"
       /\ received[Len(received) - 1].force_quirks
       /\ received[Len(received)].token_type = "EndOfFile"


\* a DOCTYPE token whose name is not html, or that has a public identifier or
\* an unexpected system identifier
UnexpectedDoctype(html_token) ==
    /\ html_token.token_type = "DocType"
    /\ \/ html_token.name # html_name
       \/ html_token.public_identifier # Str0
       \/ html_token.system_identifier \notin {Str0, about_legacy_compat}

\* C27: a DocType token with an unexpected name or identifiers, received in
\* Initial mode (here as the first token), does not halt tree construction: a
\* DocumentType node is appended to the document and the insertion mode
\* becomes BeforeHtml.
C27_UnexpectedDoctypeRecorded ==
    (received # <<>> /\ UnexpectedDoctype(received[1]))
    => /\ insertion_mode # "Initial"
       /\ nodes[document].childNodes # <<>>
       /\ ChildrenOf(document)[1].nodeType = DOCUMENT_TYPE_NODE
       /\ Len(received) = 1 => pc # "panicked"



(* HTMLDocumentParser::parse_html_token applied to tokens on its own: the     *)
(* tokenizer's Data state pushes its character tokens without emitting them,  *)
(* so the handler's character cases are exercised by handing it the tokens.   *)
MaxReceived == 5

ParserTokens ==
    {create_doctype_html_token(html_name, FALSE),
     [create_start_tag_html_token EXCEPT !.tag_name = html_name],
     [create_start_tag_html_token EXCEPT !.tag_name = head_name],
     create_character_html_token(" "),
     create_character_html_token("\n"),
     create_character_html_token("a"),
     create_comment_html_token(<<"h", "i">>),
     [create_end_tag_html_token EXCEPT !.tag_name = head_name],
     [create_end_tag_html_token EXCEPT !.tag_name = <<"a">>],
     create_end_of_file_html_token}

\* HTMLDocumentParser::new()
ParserInit ==
    /\ tokens = <<>>
    /\ overflow_checks \in BOOLEAN
    /\ position = 0
    /\ tokenization_state = "Data"
    /\ html_tokens = <<>>
    /\ reconsume_flag = FALSE
    /\ return_state = "Data"
    /\ temporary_buffer = Str0
    /\ attribute_buffer = [name |-> Str0, value |-> Str0]
    /\ character_reference_code = U32(0)
    /\ insertion_mode = "Initial"
    /\ nodes = InitialNodes
    /\ stack_of_open_elements = InitialStack
    /\ head_element = NoNode
    /\ parse_errors = <<>>
    /\ received = <<>>
    /\ next_input_character = None
    /\ pc = "parse"
    /\ NoInterpreter

\* html_document_parser.parse_html_token(&html_token)
ParseHtmlToken ==
    /\ pc = "parse"
    /\ Len(received) < MaxReceived
    /\ \E html_token \in ParserTokens :
           \E m1 \in {parse_html_token(Machine, html_token)} :
               /\ Commit(m1)
               /\ pc' = IF m1.aborted THEN "panicked" ELSE "parse"
    /\ UNCHANGED <<tokens, overflow_checks, next_input_character>>
    /\ UNCHANGED js_vars
    /\ UNCHANGED call_vars

ParserNext == ParseHtmlToken

ParserSpec == ParserInit /\ [][ParserNext]_vars

\* a whitespace character token reaches the tree constructor in the "in head" mode
WhitespaceInHead ==
    /\ insertion_mode = "InHead"
    /\ Len(received') = Len(received) + 1
    /\ received'[Len(received')].token_type = "Character"
    /\ IsWhitespaceData(received'[Len(received')].data)

LastChildIsText(place) ==
    /\ nodes[place].childNodes # <<>>
    /\ nodes[nodes[place].childNodes[Len(nodes[place].childNodes)]].nodeType = TEXT_NODE

\* C28: in the "in head" mode a whitespace character token is inserted at the
\* current node without abort: when the last child of that node is a Text node
\* the character is appended to that node's data and no node is created,
\* otherwise exactly one new Text node holding the character is created and
\* appended there.
C28_WhitespaceInsertedInHead ==
    [][WhitespaceInHead =>
         /\ pc' # "panicked"
         /\ \E place \in {stack_of_open_elements[Len(stack_of_open_elements)]} :
                IF LastChildIsText(place)
                THEN /\ Len(nodes') = Len(nodes)
                     /\ \E last \in {nodes[place].childNodes[Len(nodes[place].childNodes)]} :
                            nodes'[last].data.data =
                                nodes[last].data.data \o received'[Len(received')].data
                ELSE /\ Len(nodes') = Len(nodes) + 1
                     /\ nodes'[Len(nodes')].nodeType = TEXT_NODE
                     /\ nodes'[Len(nodes')].data = TextData(received'[Len(received')].data)
                     /\ nodes'[place].childNodes =
                            Append(nodes[place].childNodes, Len(nodes'))]_vars

\* C29: in every state of the tree constructor the bottom entry of the stack
\* of open elements is a live reference to the parser's own document node,
\* the root of the tree being built and the node print_document prints.
C29_BottomOfStackIsDocument ==
    /\ stack_of_open_elements # <<>>
    /\ upgrade(Machine, stack_of_open_elements[1]) # NoNode
    /\ stack_of_open_elements[1] = document

\* an assignment expression statement is executed and completes with a Throw
AssignmentThrows ==
    /\ js_pc = "interpret"
    /\ next_statement < Len(statements)
    /\ next_statement' = next_statement + 1
    /\ statements[next_statement + 1].node = "ExpressionStatement"
    /\ statements[next_statement + 1].expression.node = "AssignmentExpression"
    /\ Len(completions') = Len(completions) + 1
    /\ completions'[Len(completions')].type_ = "Throw"

\* C30: when the right-hand side of an assignment (or GetValue of it) yields a
\* Throw completion the assignment propagates it at once: PutValue is not
\* performed, so the global object and every binding are unchanged and the
\* thrown value is not stored under the left-hand name.
C30_ThrowSkipsPutValue ==
    [][AssignmentThrows =>
         /\ values' = values
         /\ variable_bindings' = variable_bindings]_vars

\* before operation k the name has a binding that was created and never written:
\* every earlier operation on it is a CreateMutableBinding or a GetBindingValue
CreatedOnly(name, k) ==
    /\ \E i \in 1..(k - 1) :
           operations[i].op = "CreateMutableBinding" /\ operations[i].name = name
    /\ \A i \in 1..(k - 1) :
           operations[i].name = name
           => operations[i].op \in {"CreateMutableBinding", "GetBindingValue"}

\* C31: GetBindingValue on a declarative environment record returns a Throw
\* completion when the binding exists but has not been initialized
\* (CreateMutableBinding(n) without InitializeBinding); a Normal completion is
\* returned only for an initialized binding.
C31_GetUninitializedThrows ==
    \A k \in 1..Len(operations) :
        (/\ operations[k].op = "GetBindingValue"
         /\ CreatedOnly(operations[k].name, k))
        => /\ Len(completions) >= k
           /\ completions[k].type_ = "Throw"

\* C40: an initialized binding stays writable whatever value it holds: after
\* CreateMutableBinding(n) and InitializeBinding(n, v), for any v and also for
\* undefined, SetMutableBinding(n, w, false) returns a Normal completion and a
\* following GetBindingValue(n) yields w.
C40_InitializedStaysWritable ==
    \A i \in 1..Len(operations) :
        (/\ i + 2 <= Len(operations)
         /\ operations[i].op = "CreateMutableBinding"
         /\ operations[i + 1].op = "InitializeBinding"
         /\ operations[i + 1].name = operations[i].name
         /\ operations[i + 2].op = "SetMutableBinding"
         /\ operations[i + 2].name = operations[i].name
         /\ ~operations[i + 2].strict)
        => /\ Len(completions) >= i + 2
           /\ completions[i + 2].type_ = "Normal"
           /\ (/\ i + 3 <= Len(operations)
               /\ operations[i + 3].op = "GetBindingValue"
               /\ operations[i + 3].name = operations[i].name)
              => /\ Len(completions) >= i + 3
                 /\ completions[i + 3] = create_normal_completion(operations[i + 2].value)

(* Interpreter::resolve_binding applied to a global environment record on its  *)
(* own: the interpreter never writes the declarative record of the global      *)
(* environment, so the records are drawn from the bindings of BindingNames.    *)
Bindings == UNION {[names -> BindingValues] : names \in SUBSET BindingNames}

\* a GlobalEnvironmentRecord with its object record and its declarative record
ResolveInit ==
    /\ NoTokenizer
    /\ source = <<>>
    /\ execution_mode = "Script"
    /\ js_tokens = <<>>
    /\ statements = <<>>
    /\ next_statement = 0
    /\ values \in Bindings
    /\ variable_bindings \in Bindings
    /\ had_error = FALSE
    /\ completions = <<>>
    /\ operations = <<>>
    /\ reported = <<>>
    /\ exit_code = <<>>
    /\ js_pc = "resolve"

\* Interpreter::resolve_binding(name, None)
ResolveBinding ==
    /\ js_pc = "resolve"
    /\ operations = <<>>
    /\ \E n \in BindingNames :
           /\ operations' = <<Operation("ResolveBinding", n, Undefined)>>
           /\ completions' =
                  <<resolve_binding([values |-> values, variable_bindings |-> variable_bindings], n)>>
    /\ UNCHANGED <<source, execution_mode, js_tokens, statements, next_statement, values,
                   variable_bindings, had_error, reported, exit_code, js_pc>>
    /\ UNCHANGED html_vars
    /\ UNCHANGED call_vars

ResolveNext == ResolveBinding

ResolveSpec == ResolveInit /\ [][ResolveNext]_vars

C33_NonExtensibleGlobalObject ==
    [][js_pc = "interpret" => DOMAIN values' \subseteq DOMAIN values]_vars

IdentifierOf(name) ==
    [node |-> "IdentifierExpression", binding_identifier |-> Token("IDENTIFIER", name, <<>>, 0)]

BinaryOf(left, token_type, lexeme, right) ==
    [node |-> "BinaryExpression", left |-> left, right |-> right,
     operator |-> Token(token_type, lexeme, <<>>, 0)]

AssignmentOf(left_hand_side_expression, expr) ==
    [node |-> "AssignmentExpression",
     left_hand_side_expression |-> left_hand_side_expression,
     expression |-> expr]

\* the parser has returned and the program is the one expression statement
ParsedAs(expr) ==
    /\ js_pc \notin {"scan", "parse"}
    /\ statements = <<[node |-> "ExpressionStatement", expression |-> expr]>>

Parsing(program) == source = program /\ js_pc \notin {"scan", "parse"}

\* C34: the parser builds operator trees by precedence and associativity:
\* `a + b * c` is a + (b * c), `a - b - c` is (a - b) - c, `a / b * c` is
\* (a / b) * c, and `a = b = c` is a = (b = c).
C34_PrecedenceAndAssociativity ==
    /\ Parsing(MixedPrecedence)
       => ParsedAs(BinaryOf(IdentifierOf(<<"a">>), "PLUS", <<"+">>,
                      BinaryOf(IdentifierOf(<<"b">>), "STAR", <<"*">>, IdentifierOf(<<"c">>))))
    /\ Parsing(RepeatedMinus)
       => ParsedAs(BinaryOf(
                      BinaryOf(IdentifierOf(<<"a">>), "MINUS", <<"-">>, IdentifierOf(<<"b">>)),
                      "MINUS", <<"-">>, IdentifierOf(<<"c">>)))
    /\ Parsing(RepeatedFactor)
       => ParsedAs(BinaryOf(
                      BinaryOf(IdentifierOf(<<"a">>), "SLASH", <<"/">>, IdentifierOf(<<"b">>)),
                      "STAR", <<"*">>, IdentifierOf(<<"c">>)))
    /\ Parsing(ChainedAssignment)
       => ParsedAs(AssignmentOf(IdentifierOf(<<"a">>),
                      AssignmentOf(IdentifierOf(<<"b">>), IdentifierOf(<<"c">>))))

C34_Witness ==
    /\ source = MixedPrecedence
    /\ js_pc = "interpret"
    /\ ParsedAs(BinaryOf(IdentifierOf(<<"a">>), "PLUS", <<"+">>,
                    BinaryOf(IdentifierOf(<<"b">>), "STAR", <<"*">>, IdentifierOf(<<"c">>))))

EndOfFileTokens(toks) == {i \in DOMAIN toks : toks[i].token_type = "EndOfFile"}

\* C35: when Tokenizer::start has returned, the retained token sequence holds
\* exactly one EndOfFile token and it is the last token, also when the input
\* ends inside a tag, an attribute, a comment opener or a character reference.
C35_OneEndOfFileLast ==
    (pc = "returned")
    => /\ html_tokens # <<>>
       /\ EndOfFileTokens(html_tokens) = {Len(html_tokens)}

\* the tokenizer is done with the document
Tokenized(document_text) ==
    /\ tokens = document_text
    /\ pc \in {"print", "returned", "panicked"}

\* C36: when a start tag is completed by `>`, its attribute map holds exactly
\* the distinct attribute names written in the tag: a tag written with no
\* attribute has an empty map and inherits nothing from an earlier tag, a
\* valueless attribute followed by another is kept, and so is an unquoted
\* value ended by `>`.
C36_AttributesAsWritten ==
    /\ Tokenized(TagThenSpace)
       => /\ html_tokens # <<>>
          /\ html_tokens[1].token_type = "StartTag"
          /\ DOMAIN html_tokens[1].attributes = {}
    /\ Tokenized(TwoBareAttributes)
       => /\ html_tokens # <<>>
          /\ html_tokens[1].token_type = "StartTag"
          /\ DOMAIN html_tokens[1].attributes = {<<"g">>, <<"t">>}
    /\ Tokenized(UnquotedValueThenClose)
       => /\ html_tokens # <<>>
          /\ html_tokens[1].token_type = "StartTag"
          /\ DOMAIN html_tokens[1].attributes = {<<"g">>}
    /\ Tokenized(AttributeThenPlainTag)
       => /\ Len(html_tokens) >= 2
          /\ html_tokens[2].token_type = "StartTag"
          /\ DOMAIN html_tokens[2].attributes = {}

\* C37: in the Initial mode a token that is no whitespace character, comment
\* or DOCTYPE switches the mode to BeforeHtml and is then processed by the
\* BeforeHtml rules: a document whose first token is StartTag html still gets
\* an html element child and reaches BeforeHead.
C37_FirstTokenReprocessed ==
    (/\ received # <<>>
     /\ received[1].token_type = "StartTag"
     /\ received[1].tag_name = html_name)
    => /\ insertion_mode \notin {"Initial", "BeforeHtml"}
       /\ \E i \in DOMAIN ChildrenOf(document) :
              /\ ChildrenOf(document)[i].nodeType = ELEMENT_NODE
              /\ ChildrenOf(document)[i].data.local_name = html_name

InsertionModes == <<"Initial", "BeforeHtml", "BeforeHead", "InHead">>

\* the mode stays, or moves to the next mode of InsertionModes
OneStepForward ==
    \/ insertion_mode' = insertion_mode
    \/ \E i \in 1..(Len(InsertionModes) - 1) :
           /\ insertion_mode = InsertionModes[i]
           /\ insertion_mode' = InsertionModes[i + 1]

\* C38: for every sequence of tokens the insertion mode is one of Initial,
\* BeforeHtml, BeforeHead, InHead, and every change of mode moves exactly one
\* step forward in that order: never backwards, never over a mode, never into
\* a stub mode.
C38_ModesAdvanceOneStep ==
    /\ [](insertion_mode \in Range(InsertionModes))
    /\ [][OneStepForward]_vars

C38_Witness ==
    /\ pc = "parse"
    /\ insertion_mode = "InHead"
    /\ Len(received) = 3

(* Scanner::scan_tokens run one scan_token call at a time over every source of *)
(* ScannerAlphabet up to MaxSource characters.                                 *)
MaxSource == 3

ScannerAlphabet == {"\"", "1", ".", "a", "/", "\n", "=", "@"}

ScannerSources == UNION {[1..n -> ScannerAlphabet] : n \in 0..MaxSource}

ScanInit ==
    /\ NoTokenizer
    /\ source \in ScannerSources
    /\ execution_mode = "Script"
    /\ js_tokens = <<>>
    /\ statements = <<>>
    /\ next_statement = 0
    /\ values = NewEnvironment.values
    /\ variable_bindings = NewEnvironment.variable_bindings
    /\ had_error = FALSE
    /\ completions = <<>>
    /\ operations = <<>>
    /\ reported = <<>>
    /\ exit_code = <<>>
    /\ js_pc = "new"

\* let mut scanner = Scanner::new(source);
ScannerNew ==
    /\ js_pc = "new"
    /\ scanner' = <<NewScanner>>
    /\ js_pc' = "scan_tokens"
    /\ UNCHANGED <<source, execution_mode, js_tokens, statements, next_statement, values,
                   variable_bindings, had_error, completions, operations, reported, exit_code>>
    /\ UNCHANGED html_vars
    /\ UNCHANGED appropriate

\* one turn of `while !self.is_at_end() { self.start = self.current; self.scan_token(); }`
ScanToken ==
    /\ js_pc = "scan_tokens"
    /\ ~scanner_is_at_end(source, scanner[1])
    /\ scanner' = <<scan_token(source, [scanner[1] EXCEPT !.start = scanner[1].current])>>
    /\ UNCHANGED js_vars
    /\ UNCHANGED html_vars
    /\ UNCHANGED appropriate

\* self.tokens.push(Token::new(TokenType::EOF, ..)); return &self.tokens;
ScanTokensReturns ==
    /\ js_pc = "scan_tokens"
    /\ scanner_is_at_end(source, scanner[1])
    /\ js_tokens' = push_eof(scanner[1]).tokens
    /\ reported' = reported \o scanner[1].reported
    /\ js_pc' = "scanned"
    /\ UNCHANGED <<source, execution_mode, statements, next_statement, values,
                   variable_bindings, had_error, completions, operations, exit_code>>
    /\ UNCHANGED html_vars
    /\ UNCHANGED call_vars

ScanNext == ScannerNew \/ ScanToken \/ ScanTokensReturns

\* the loop of scan_tokens runs on: no other thread, no blocking call
ScanSpec == ScanInit /\ [][ScanNext]_vars /\ WF_vars(ScanNext)

\* a scan_token call leaves the scanner further in the source
ScanTokenConsumes ==
    (scanner # <<>> /\ scanner' # scanner) => scanner'[1].current > scanner[1].current

\* C39: Scanner::scan_tokens terminates on every source: each scan_token call
\* consumes at least one character, also after an unterminated string or an
\* unexpected character, and the returned token sequence ends with EOF and
\* holds no other EOF token.
C39_ScanTokensTerminates ==
    /\ [][ScanTokenConsumes]_vars
    /\ <>(js_pc = "scanned")
    /\ [](js_pc = "scanned"
          => /\ js_tokens # <<>>
             /\ {i \in DOMAIN js_tokens : js_tokens[i].token_type = "EOF"} = {Len(js_tokens)})

\* scan_tokens has returned on "1@ with the number, one report and EOF
C39_Witness ==
    /\ source = <<"\"", "1", "@">>
    /\ js_pc = "scanned"
    /\ Len(reported) = 1
    /\ js_tokens = <<Token("EOF", <<>>, <<>>, 0)>>

=============================================================================
